---------------------------- MODULE MCGuiSession ----------------------------
(* The configurations of this module differ in the buttons that the user    *)
(* clicks, in the faults, and in whether the device is there at the start.  *)
EXTENDS GuiSession

MCPasswords == {"p", "q"}
OnePassword == {"p"}
MCNoPassword == ""
DeviceFaults == {"touch", "text", "error", "transport"}
DeviceButtons == {"led", "seed", "erase", "password"}
ClientButtons == {"erase", "password", "join", "proposals"}
=============================================================================
