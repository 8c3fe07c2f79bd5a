\* Both peers connect, drop and connect again; packets of the first round may still arrive.
CONSTANTS
    MaxConnects = 2
SPECIFICATION ReuseSpec
PROPERTIES ReuseCompletes
CHECK_DEADLOCK FALSE
