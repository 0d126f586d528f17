SPECIFICATION Spec
CONSTANTS
    Helpers <- MCHelpers
    MaxUnits <- MCOneSerial
PROPERTY CallsEnd
