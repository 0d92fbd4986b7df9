SPECIFICATION Spec
CONSTANTS
    Request = "web-eu"
    Names <- AnyNames
    MaxReplicas = 3
    MaxIndex = 3

    
PROPERTIES
    LowestComeFirst
    NewestGoFirst
