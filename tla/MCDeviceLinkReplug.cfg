CONSTANTS
    MaxPlugs = 2
    MaxSignals = 2
    Reports = 2
SPECIFICATION Spec
PROPERTY
    OpenMeansOpen
