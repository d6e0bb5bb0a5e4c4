---------------------------- MODULE MCSettingsPage ----------------------------
EXTENDS SettingsPage

MCPcd == [s \in Settings |-> s \in {"AltBoot", "BootOrderLock", "EnableUsbBoot"}]
=============================================================================
