SPECIFICATION Spec
CONSTANT Devices <- SomeDevices
PROPERTY AnyKeyContinues
