SPECIFICATION FairHubSpec
CONSTANTS
    installed = installed
    catalog = catalog
    loader = loader
    Key <- InstalledKey
    Catalog <- MCCatalog
    Loader <- NoLoader
    Faulty <- NothingFails
    Lossy = FALSE
    MaxChange = 2
    MaxMove = 1
PROPERTIES
    PageCatchesUp
    ChangeIsShown
    
