CONSTANTS
    Downloads <- MCDownloads
    Packages <- MCPackages
    Wheel <- MCWheel
    Generated = generated
    Source = model
    Wheels = {wheel}
    model = model
    wheel = wheel
    package = package
    info = info
    Size = 2
    MaxFaults = 2
SPECIFICATION FairSpec
INVARIANTS
    PublishedIsVerified
    MarkerMeansReady
PROPERTIES
    ChangedFilesAreKept
    RetrySucceedsOtherwise
