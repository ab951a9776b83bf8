SPECIFICATION HubSpec
CONSTANTS
    installed = installed
    catalog = catalog
    loader = loader
    Key <- CatalogKey
    Catalog <- MCCatalog
    Loader <- OneLoader
    Faulty <- CatalogFails
    Lossy = TRUE
    MaxChange = 1
    MaxMove = 1
INVARIANTS
    HubTypeOK
    MirrorAgrees
PROPERTIES
    PageNeverGoesBack
