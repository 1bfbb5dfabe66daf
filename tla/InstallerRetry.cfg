CONSTANTS
    Downloads <- MCDownloads
    Packages <- MCPackages
    Wheel <- MCWheel
    Generated = generated
    Source = model
    Wheels = {wheel}
    model = model
    wheel = wheel
    package = package
    info = info
    Size = 1
    MaxFaults = 1
SPECIFICATION FairSpec
PROPERTIES RetrySucceeds
