\* A coded handle over one whose reads fail now and then.
CONSTANTS
    Written <- UpToTwoBytes
    MaxLen = 3
    FaultKinds = {"read"}
    MaxFaults = 1
SPECIFICATION Spec
PROPERTIES
    AppendsAfterTheEnd
