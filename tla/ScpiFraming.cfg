SPECIFICATION Spec
CONSTANTS
    CR = "cr"
    LF = "lf"
    Others = {"x"}
    MaxSent = 5
    MAX_BUFF_SIZE = 2
    SIZE = 3
PROPERTIES
    CommandsAreTheStream
    
