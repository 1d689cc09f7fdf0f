SPECIFICATION Spec
CONSTANT Devices <- SomeDevices
INVARIANTS TypeOK HandlersReady NothingLeftInService
PROPERTIES KeyNeverStranded KeyStartsShell
