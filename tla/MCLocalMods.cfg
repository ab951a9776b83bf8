\* One switch at a time and one move by the player: two packages that share a repository,
\* two claims on the same bytes, a chain of one library.
CONSTANTS
  Packages <- MCPackages
  PrivatePackages <- MCPrivate
  Places <- MCPlaces
  Dlls <- MCDlls
  RuntimeVersion <- MCVersion
  Roots <- MCRoots
  FirstGames <- MCFirstGames
  Threads = {t1}
  t1 = t1
  MaxMoves = 1
  None = None
SPECIFICATION Spec

  
PROPERTIES
  
  
  NamesAreNotContent
