SPECIFICATION Spec
CONSTANTS
    Device = "device"
    Absent = "absent"
    Invalid = "invalid"
    Reg = {"position", "led"}
    Value = {0, 1}
    Position = "position"
    Led = "led"
    MaxFaults = 1
CHECK_DEADLOCK FALSE
INVARIANTS BusReleased ResultTrue EspValueTrue
