----------------------------- MODULE DeviceLink -----------------------------
(***************************************************************************)
(* The USB link to the device: src/src/libdbb/dbb.cpp, the polling thread  *)
(* usbCheckThread of src/src/dbb_app.cpp, and the way the connection state *)
(* reaches the window (constructor and changeConnectedState of             *)
(* src/src/qt/dbb_gui.cpp).                                                *)
(*                                                                         *)
(* Three threads share the global HID_HANDLE without a lock: usbCheckThread*)
(* replaces it, cmdThread reads it at every hid_write and hid_read, the    *)
(* main thread reads it once while it constructs the window.  Every time   *)
(* the device is plugged in it counts as a new one; a handle is the number *)
(* of the device it was opened on, and is dead once that device is gone.   *)
(***************************************************************************)
EXTENDS Naturals, Sequences

CONSTANTS MaxPlugs,      \* bound: how often the device is plugged in
          MaxSignals,    \* bound: deviceStateHasChanged events in Qt's queue
          Reports        \* HID reports per answer (HID_REPORT_SIZE bytes in all)

ASSUME LinkAssumption == /\ MaxPlugs \in Nat
                         /\ MaxSignals \in Nat \ {0}
                         /\ Reports \in Nat \ {0}

VARIABLES calm,          \* the kind of user, see Plug; it never changes
          device,        \* the device that is plugged in, or None
          plugs,         \* how many have been plugged in so far
          owed,          \* reports of its answer that the device has yet to send
          handle,        \* HID_HANDLE, None for NULL
          upc,           \* where usbCheckThread is
          opened,        \* what its openConnection returned
          mpc,           \* where the main thread is
          widget,        \* the global widget has been assigned
          connected,     \* DBBDaemonGui::deviceConnected
          signals,       \* deviceStateHasChanged events not yet delivered
          cpc,           \* where cmdThread is in DBB::sendCommand
          reading,       \* the handle that its hid_read was called with
          cnt,           \* reports read so far
          written,       \* the device that got the command, or None
          sources,       \* the devices that the reports read came from
          outcome        \* how the last sendCommand ended

envVars == <<calm, device, plugs, owed>>
usbVars == <<upc, opened>>
guiVars == <<mpc, widget, connected>>
cmdVars == <<cpc, reading, cnt, written, sources, outcome>>
vars == <<envVars, handle, usbVars, guiVars, signals, cmdVars>>
-----------------------------------------------------------------------------
None == 0
Devices == 1..MaxPlugs

Init == /\ calm \in BOOLEAN
        /\ device \in IF calm THEN {None} ELSE {None, 1} \cap 0..MaxPlugs
        /\ plugs = device
        /\ owed = 0
        /\ handle = None
        /\ upc = "check"
        /\ opened = FALSE
        /\ mpc = "isOpen"
        /\ widget = FALSE
        /\ connected = FALSE
        /\ signals = <<>>
        /\ cpc = "idle"
        /\ reading = None
        /\ cnt = 0
        /\ written = None
        /\ sources = {}
        /\ outcome = "none"
-----------------------------------------------------------------------------
(***************************************************************************)
(* The user.                                                               *)
(***************************************************************************)
\* A calm user plugs the device in after the window has been published, and
\* again only after a poll has missed it; another one does so at any time.
Plug == /\ device = None
        /\ plugs < MaxPlugs
        /\ calm => handle = None /\ widget
        /\ plugs' = plugs + 1
        /\ device' = plugs'
        /\ owed' = 0
        /\ UNCHANGED <<calm, handle, usbVars, guiVars, signals, cmdVars>>

Unplug == /\ device # None
          /\ device' = None
          /\ owed' = 0
          /\ UNCHANGED <<calm, plugs, handle, usbVars, guiVars, signals, cmdVars>>

(***************************************************************************)
(* usbCheckThread.                                                         *)
(***************************************************************************)
\* Mutant of Check: the poll closes the handle and opens it again.
BugReopen == /\ upc = "check"
             /\ handle' = None
             /\ upc' = "open"
             /\ UNCHANGED <<envVars, opened, guiVars, signals, cmdVars>>

\* isConnectionOpen: without a handle the answer is no ...
Check == /\ upc = "check"
         /\ upc' = IF handle = None THEN "open" ELSE "enumerate"
         /\ UNCHANGED <<envVars, handle, opened, guiVars, signals, cmdVars>>

\* Mutant of Enumerate: a handle, once open, is taken to be open for ever.
BugTrustHandle == /\ upc = "enumerate"
                  /\ upc' = "sleep"
                  /\ UNCHANGED <<envVars, handle, opened, guiVars, signals, cmdVars>>

\* ... with one, it is whether some device is listed, not whether the handle
\* belongs to it.
Enumerate == /\ upc = "enumerate"
             /\ upc' = IF device = None THEN "open" ELSE "sleep"
             /\ UNCHANGED <<envVars, handle, opened, guiVars, signals, cmdVars>>

\* openConnection: the handle is overwritten even when hid_open fails.
Open == /\ upc = "open"
        /\ handle' = device
        /\ opened' = (device # None)
        /\ upc' = "tell"
        /\ UNCHANGED <<envVars, guiVars, signals, cmdVars>>

\* Mutant of Tell: only a new connection is announced.
BugTellOpenOnly == /\ upc = "tell"
                   /\ signals' = IF widget /\ opened THEN Append(signals, TRUE) ELSE signals
                   /\ upc' = "sleep"
                   /\ UNCHANGED <<envVars, handle, opened, guiVars, cmdVars>>

\* Mutant of Tell: only a lost connection is announced.
BugTellLossOnly == /\ upc = "tell"
                   /\ signals' = IF widget /\ ~opened THEN Append(signals, FALSE) ELSE signals
                   /\ upc' = "sleep"
                   /\ UNCHANGED <<envVars, handle, opened, guiVars, cmdVars>>

\* if (widget) widget->deviceStateHasChanged(...): posted to the main thread.
Tell == /\ upc = "tell"
        /\ Len(signals) < MaxSignals
        /\ signals' = IF widget THEN Append(signals, opened) ELSE signals
        /\ upc' = "sleep"
        /\ UNCHANGED <<envVars, handle, opened, guiVars, cmdVars>>

Sleep == /\ upc = "sleep"
         /\ upc' = "check"
         /\ UNCHANGED <<envVars, handle, opened, guiVars, signals, cmdVars>>

(***************************************************************************)
(* The main thread.  The constructor of the window asks isConnectionOpen   *)
(* and adopts the answer, which may open a modal dialog; only when it has  *)
(* returned is widget assigned, and only then does the event loop deliver  *)
(* what usbCheckThread has posted (a dialog of the published window runs   *)
(* an event loop of its own, which delivers it as well).                   *)
(***************************************************************************)
IsOpen == /\ mpc = "isOpen"
          /\ mpc' = IF handle = None THEN "publish" ELSE "enumerate"
          /\ UNCHANGED <<envVars, handle, usbVars, widget, connected, signals, cmdVars>>

\* changeConnectedState, called by the constructor: with a device the password
\* of the session is asked for, in a modal dialog.
Construct == /\ mpc = "enumerate"
             /\ connected' = (device # None)
             /\ mpc' = IF device = None THEN "publish" ELSE "prompt"
             /\ UNCHANGED <<envVars, handle, usbVars, widget, signals, cmdVars>>

\* The user closes that dialog, if at all; until then there is no widget.
ClosePrompt == /\ mpc = "prompt"
               /\ mpc' = "publish"
               /\ UNCHANGED <<envVars, handle, usbVars, widget, connected, signals, cmdVars>>

Publish == /\ mpc = "publish"
           /\ widget' = TRUE
           /\ mpc' = "loop"
           /\ UNCHANGED <<envVars, handle, usbVars, connected, signals, cmdVars>>

\* changeConnectedState.
Deliver == /\ mpc = "loop"
           /\ signals # <<>>
           /\ connected' = Head(signals)
           /\ signals' = Tail(signals)
           /\ UNCHANGED <<envVars, handle, usbVars, mpc, widget, cmdVars>>

(***************************************************************************)
(* DBB::sendCommand, run by cmdThread.                                     *)
(***************************************************************************)
\* Mutant of Start: the count and the report buffer survive a failed command.
BugKeepCount == /\ cpc = "idle"
                /\ IF handle = None THEN /\ outcome' = "closed"
                                         /\ UNCHANGED cpc
                                    ELSE /\ outcome' = "none"
                                         /\ cpc' = "write"
                /\ reading' = None
                /\ written' = None
                /\ UNCHANGED <<envVars, handle, usbVars, guiVars, signals, cnt, sources>>

Start == /\ cpc = "idle"
         /\ IF handle = None THEN /\ outcome' = "closed"
                                  /\ UNCHANGED cpc
                             ELSE /\ outcome' = "none"
                                  /\ cpc' = "write"
         /\ reading' = None
         /\ cnt' = 0
         /\ written' = None
         /\ sources' = {}
         /\ UNCHANGED <<envVars, handle, usbVars, guiVars, signals>>

\* A null handle given to hidapi: the process dies.
Crash == /\ cpc \in {"write", "read"}
         /\ handle = None
         /\ cpc' = "crashed"
         /\ UNCHANGED <<envVars, handle, usbVars, guiVars, signals,
                        reading, cnt, written, sources, outcome>>

\* hid_write on a dead handle fails; nobody looks at its result.
Write == /\ cpc = "write"
         /\ handle # None
         /\ IF handle = device THEN /\ written' = device
                                    /\ owed' = Reports
                               ELSE UNCHANGED <<written, owed>>
         /\ cpc' = "read"
         /\ UNCHANGED <<calm, device, plugs, handle, usbVars, guiVars, signals,
                        reading, cnt, sources, outcome>>

\* The next hid_read of the loop takes HID_HANDLE as it is now.
ReadCall == /\ cpc = "read"
            /\ handle # None
            /\ reading' = handle
            /\ cpc' = "reading"
            /\ UNCHANGED <<envVars, handle, usbVars, guiVars, signals,
                           cnt, written, sources, outcome>>

\* Mutant of ReadReport: the loop waits for one report too many.
BugReadOneMore == /\ cpc = "reading"
                  /\ reading = device
                  /\ owed > 0
                  /\ owed' = owed - 1
                  /\ cnt' = cnt + 1
                  /\ sources' = sources \cup {device}
                  /\ IF cnt' <= Reports THEN /\ cpc' = "read"
                                             /\ UNCHANGED outcome
                                        ELSE /\ cpc' = "idle"
                                             /\ outcome' = "answer"
                  /\ UNCHANGED <<calm, device, plugs, handle, usbVars, guiVars, signals,
                                 reading, written>>

\* A report arrives; without a timeout hid_read blocks until one does.
ReadReport == /\ cpc = "reading"
              /\ reading = device
              /\ owed > 0
              /\ owed' = owed - 1
              /\ cnt' = cnt + 1
              /\ sources' = sources \cup {device}
              /\ IF cnt' < Reports THEN /\ cpc' = "read"
                                        /\ UNCHANGED outcome
                                   ELSE /\ cpc' = "idle"
                                        /\ outcome' = "answer"
              /\ UNCHANGED <<calm, device, plugs, handle, usbVars, guiVars, signals,
                             reading, written>>

\* The device behind the handle is gone: hid_read returns -1, sendCommand throws.
ReadFail == /\ cpc = "reading"
            /\ reading # device
            /\ cpc' = "idle"
            /\ outcome' = "threw"
            /\ UNCHANGED <<envVars, handle, usbVars, guiVars, signals,
                           reading, cnt, written, sources>>

Crashed == cpc = "crashed" /\ UNCHANGED vars
-----------------------------------------------------------------------------
UsbStep == Check \/ Enumerate \/ Open \/ Tell \/ Sleep
MainStep == IsOpen \/ Construct \/ Publish \/ Deliver
CmdStep == Crash \/ Write \/ ReadCall \/ ReadReport \/ ReadFail

Next == \/ /\ cpc # "crashed"
           /\ Plug \/ Unplug \/ ClosePrompt \/ UsbStep \/ MainStep \/ Start \/ CmdStep
        \/ Crashed

SafeSpec == Init /\ [][Next]_vars

\* The threads run, and a device that owes a report sends it.  The user need
\* not plug, unplug, send or close anything.  (After a dialog the main thread
\* posts a command and waits for cs_queue while another one runs; it is kept
\* waiting for ever only by a Stranded one.)
Fairness == /\ WF_vars(cpc # "crashed" /\ UsbStep)
            /\ WF_vars(cpc # "crashed" /\ MainStep)
            /\ WF_vars(cpc # "crashed" /\ CmdStep)

Spec == SafeSpec /\ Fairness
-----------------------------------------------------------------------------
(***************************************************************************)
(* Properties.                                                             *)
(***************************************************************************)
\* The types of the variables of the three threads.
TypeOK == /\ calm \in BOOLEAN
          /\ device \in 0..MaxPlugs
          /\ plugs \in 0..MaxPlugs
          /\ owed \in 0..Reports
          /\ handle \in 0..MaxPlugs
          /\ upc \in {"check", "enumerate", "open", "tell", "sleep"}
          /\ opened \in BOOLEAN
          /\ mpc \in {"isOpen", "enumerate", "prompt", "publish", "loop"}
          /\ widget \in BOOLEAN
          /\ connected \in BOOLEAN
          /\ signals \in Seq(BOOLEAN)
          /\ cpc \in {"idle", "write", "read", "reading", "crashed"}
          /\ reading \in 0..MaxPlugs
          /\ cnt \in 0..Reports
          /\ written \in 0..MaxPlugs
          /\ sources \subseteq Devices
          /\ outcome \in {"none", "closed", "threw", "answer"}

\* An answer that sendCommand returns is complete, and every report of it came
\* from the device that was given the command, although HID_HANDLE is read
\* afresh at every hid_read while usbCheckThread replaces it (lines 98-117 of
\* dbb.cpp).
AnswerFromAddressee ==
    outcome = "answer" => cnt = Reports /\ written # None /\ sources = {written}

\* As long as the device that a command was written to stays plugged in, that
\* command neither fails nor finds its handle replaced.
UndisturbedCommandSucceeds ==
    cpc \in {"read", "reading", "crashed"} /\ written # None /\ written = device
      => handle = device /\ cpc # "crashed" /\ (cpc = "reading" => reading = device)

\* isConnectionOpen, asked by usbCheckThread, answers yes only for a handle
\* that is connected to the device: "return true if a USBHID connection is
\* open" (include/dbb.h).
OpenMeansOpen ==
    [][upc = "enumerate" /\ upc' = "sleep" => handle = device]_vars

\* So it is with a calm user: a dead handle is replaced before another device
\* is listed (lines 60-77 of dbb.cpp).
OpenMeansOpenIfCalm ==
    [][calm /\ upc = "enumerate" /\ upc' = "sleep" => handle = device]_vars

Gone == cpc = "crashed"

\* hid_read waits, without a timeout, for a device that never got the command:
\* the one that replaced the addressee in mid-answer.
Stranded == cpc = "reading" /\ reading = device /\ written # device

\* Nothing else keeps a command from ending, whatever is plugged and unplugged
\* while sendCommand is in its loop (lines 106-112 of dbb.cpp).
CommandEnds == cpc = "write" ~> cpc \in {"idle", "crashed"} \/ Stranded

\* Once the window is there, a device that is gone for good is reported gone,
\* also when it left while the constructor sat in its dialog and every signal
\* was dropped for want of a widget: openConnection fails at every poll, and
\* every failure is signalled again (lines 191-206 of dbb_app.cpp).  Without
\* <>widget this is false: the user may leave the dialog open for ever.
WindowLearnsDisconnect ==
    <>[](device = None) /\ <>widget => <>[](~connected) \/ <>Gone

\* The device of a calm user, if it stays plugged in, is shown as connected
\* and its handle is good (lines 187-211 of dbb_app.cpp), unless cmdThread
\* waits for ever, and with it whoever wants to post a command.
WindowLearnsConnection ==
    calm /\ <>[](device # None) => <>[](connected /\ handle = device) \/ <>Gone \/ <>[]Stranded
=============================================================================
