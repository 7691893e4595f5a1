----------------------------- MODULE GuiSession -----------------------------
(***************************************************************************)
(* The session of the main window, src/src/qt/dbb_gui.cpp: the flag        *)
(* processComnand that keeps the window to one command at a time, the      *)
(* session password with its copy during a change, and the dialogs.        *)
(*                                                                         *)
(* Every dialog is modal and runs an event loop of its own, inside the     *)
(* handler that opened it: while it is open the buttons of the window are  *)
(* blocked, but answers and changes of the connection are delivered, and   *)
(* their handlers may open further dialogs on top.  The rest of a handler  *)
(* is therefore an action of its own, taken when its dialog - by then the  *)
(* topmost - is closed; dialogs is the stack of the handlers that wait,    *)
(* topmost first.                                                          *)
(*                                                                         *)
(* The command queue is the FIFO service of module CommandService.  The    *)
(* device and the user are external.                                       *)
(***************************************************************************)
EXTENDS Naturals, Sequences

CONSTANTS Passwords,
          NoPassword,        \* the empty string
          Buttons,           \* the buttons that the user clicks
          Faults,            \* what may go wrong besides a wrong password
          ConnectedAtStart,  \* DBB::isConnectionOpen() in the constructor
          SeededAtStart,     \* has the copay client found its keys in copay.dat?
          MaxDialogs,        \* bound: dialogs and changes of the connection
          MaxCommands        \* bound: what may be on its way when a button is clicked

ButtonNames == {"led", "seed", "erase", "password", "join", "proposals"}

\* The device declines at its touch button (as an object or as a text), it
\* answers with an error object, it does not answer, it erases itself after
\* too many wrong passwords.
FaultNames == {"touch", "text", "error", "transport", "reset"}

ASSUME SessionAssumption == /\ NoPassword \notin Passwords
                            /\ Buttons \subseteq ButtonNames
                            /\ Faults \subseteq FaultNames
                            /\ ConnectedAtStart \in BOOLEAN
                            /\ SeededAtStart \subseteq BOOLEAN
                            /\ MaxDialogs \in Nat
                            /\ MaxCommands \in Nat

VARIABLES processComnand,   \* a command of this window is being processed
          sessionPassword,
          during,           \* sessionPasswordDuringChangeProcess
          deviceConnected,
          dialogs,          \* the handlers that wait for a dialog, topmost first
          events,           \* signals of the other threads, not yet delivered
          queue,            \* commands that have not been called back
          copayFile,        \* copay.dat exists
          seeded,           \* client.IsSeeded()
          devicePassword    \* the password of the device

vars == <<processComnand, sessionPassword, during, deviceConnected, dialogs,
          events, queue, copayFile, seeded, devicePassword>>

client == <<copayFile, seeded>>   \* vMultisigWallets[0].client
-----------------------------------------------------------------------------
MaybePassword == Passwords \cup {NoPassword}

Tags == {"info", "led", "seed", "erase", "password", "sign", "xpub"}
Changes == {"password", "erase"}

\* A command in the queue: what it asks for, the password it is encrypted
\* with, and the new password if it sets one.
Commands == [tag : Tags, key : MaybePassword, new : MaybePassword]

\* What parseResponse tells apart in an answer: not an object; an error object
\* with one of the codes it knows, or another; a touchbutton object or text;
\* "success"; the undecryptable answer to a change of the password.
Errors == {"error101", "error108", "error110", "error"}
Shapes == Errors \cup {"none", "touch", "text", "success", "cipher"}

Links == [type : {"link"}, up : BOOLEAN]
Responses == [type : {"response"}, tag : Tags, shape : Shapes]
Signings == [type : {"echo", "signed"}]
Events == Links \cup Responses \cup Signings

\* The handlers, named for the dialog they wait for.
Dialogs == {"ask", "askAtStart", "newPassword", "notice", "wrongPassword",
            "noPasswordSet", "thenInfo", "erased", "textPassword", "textErase",
            "invitation", "noWallet", "question"}

IsResponse(e, tags, shapes) ==
    e.type = "response" /\ e.tag \in tags /\ e.shape \in shapes

Push(d) == <<d>> \o dialogs
Pop == Tail(dialogs)
Replace(d) == <<d>> \o Pop
Topmost(d) == dialogs # <<>> /\ Head(dialogs) = d
-----------------------------------------------------------------------------
(***************************************************************************)
(* The constructor leaves processComnand uninitialised until its last      *)
(* line.  If the device is there already, it has asked for the password    *)
(* by then, and the dialog's event loop has been running.                  *)
(***************************************************************************)
Init == /\ IF ConnectedAtStart THEN /\ processComnand \in BOOLEAN
                                    /\ dialogs = <<"askAtStart">>
                               ELSE /\ processComnand = FALSE
                                    /\ dialogs = <<>>
        /\ deviceConnected = ConnectedAtStart
        /\ sessionPassword = NoPassword
        /\ during = NoPassword
        /\ events = <<>>
        /\ queue = <<>>
        /\ seeded \in SeededAtStart
        /\ copayFile = seeded
        /\ devicePassword \in MaybePassword
-----------------------------------------------------------------------------
(***************************************************************************)
(* Posting a command.                                                      *)
(***************************************************************************)
Command(tag, key, new) == [tag |-> tag, key |-> key, new |-> new]

\* Mutant of Wrapper: the flag is not tested.
BugAlwaysPost(busy, c) == /\ processComnand' = TRUE
                          /\ queue' = Append(queue, c)

\* Mutant of Wrapper: the command goes into the queue without its password.
BugPostBare(busy, c) == IF busy THEN /\ processComnand' = busy
                                        /\ UNCHANGED queue
                                   ELSE /\ processComnand' = TRUE
                                        /\ queue' = Append(queue, [tag |-> c.tag, new |-> c.new])

\* QTexecuteCommandWrapper, called when processComnand has the value busy.
Wrapper(busy, c) == IF busy THEN /\ processComnand' = busy
                                 /\ UNCHANGED queue
                            ELSE /\ processComnand' = TRUE
                                 /\ queue' = Append(queue, c)

\* It returns false exactly when the flag was set.
Posted(busy) == ~busy

GetInfo(key) == Wrapper(processComnand, Command("info", key, NoPassword))

\* sendCommand sets the flag itself before it calls QTexecuteCommandWrapper.
SendCommand(busy, c) == IF busy THEN /\ processComnand' = busy
                                     /\ UNCHANGED queue
                                ELSE Wrapper(TRUE, c)
-----------------------------------------------------------------------------
(***************************************************************************)
(* The buttons.                                                            *)
(***************************************************************************)
Clickable(b) == /\ dialogs = <<>>
                /\ b \in Buttons
                /\ Len(queue) + Len(events) < MaxCommands

Led == /\ Clickable("led")
       /\ Wrapper(processComnand, Command("led", sessionPassword, NoPassword))
       /\ UNCHANGED <<sessionPassword, during, deviceConnected, dialogs, events,
                      client, devicePassword>>

Seed == /\ Clickable("seed")
        /\ Wrapper(processComnand, Command("seed", sessionPassword, NoPassword))
        /\ UNCHANGED <<sessionPassword, during, deviceConnected, dialogs, events,
                       client, devicePassword>>

\* Mutant of Erase: the result of the wrapper is not looked at.
BugForgetAnyway ==
    /\ Clickable("erase")
    /\ Wrapper(processComnand, Command("erase", sessionPassword, NoPassword))
    /\ copayFile' = FALSE
    /\ during' = sessionPassword
    /\ sessionPassword' = NoPassword
    /\ UNCHANGED <<deviceConnected, dialogs, events, seeded, devicePassword>>

\* The local data of the copay client goes before the device has answered.
Erase == /\ Clickable("erase")
         /\ Wrapper(processComnand, Command("erase", sessionPassword, NoPassword))
         /\ IF Posted(processComnand)
            THEN /\ copayFile' = FALSE
                 /\ during' = sessionPassword
                 /\ sessionPassword' = NoPassword
            ELSE UNCHANGED <<copayFile, during, sessionPassword>>
         /\ UNCHANGED <<deviceConnected, dialogs, events, seeded, devicePassword>>

SetPassword == /\ Clickable("password")
               /\ dialogs' = Push("newPassword")
               /\ UNCHANGED <<processComnand, sessionPassword, during, deviceConnected,
                              events, queue, client, devicePassword>>

\* JoinCopayWallet: setResultText("") has already reset the flag when the
\* client is asked for its keys, or when the invitation dialog opens.
Join == /\ Clickable("join")
        /\ IF seeded
           THEN /\ processComnand' = FALSE
                /\ dialogs' = Push("invitation")
                /\ UNCHANGED queue
           ELSE /\ SendCommand(FALSE, Command("xpub", sessionPassword, NoPassword))
                /\ UNCHANGED dialogs
        /\ UNCHANGED <<sessionPassword, during, deviceConnected, events, client,
                       devicePassword>>

\* checkPaymentProposals: the warning "No Wallet" is shown when the wallets
\* are available.  Without a request key, or with an HTTP error, nothing is.
CheckProposals ==
    /\ Clickable("proposals")
    /\ dialogs' \in {dialogs} \cup (IF seeded THEN {Push("noWallet")} ELSE {})
    /\ UNCHANGED <<processComnand, sessionPassword, during, deviceConnected,
                   events, queue, client, devicePassword>>
-----------------------------------------------------------------------------
(***************************************************************************)
(* The user closes the topmost dialog and the handler goes on.             *)
(***************************************************************************)
\* askForSessionPassword and the getInfo that follows wherever it is called;
\* NoPassword stands for Cancel or an empty text.  In the constructor
\* (askAtStart) the last line then resets the flag.
Ask(text) ==
    LET password == IF text = NoPassword THEN sessionPassword ELSE text
    IN  /\ sessionPassword' = password
        /\ \/ /\ Topmost("ask")
              /\ GetInfo(password)
           \/ /\ Topmost("askAtStart")
              /\ queue' = IF processComnand THEN queue
                          ELSE Append(queue, Command("info", password, NoPassword))
              /\ processComnand' = FALSE
        /\ dialogs' = Pop
        /\ UNCHANGED <<during, deviceConnected, events, client, devicePassword>>

\* Mutant of NewPassword: the copy is taken after the new password is in place.
BugCopyLate(text) ==
    /\ Topmost("newPassword")
    /\ Wrapper(processComnand, Command("password", sessionPassword, text))
    /\ IF Posted(processComnand) THEN /\ during' = text
                                      /\ sessionPassword' = text
                                 ELSE UNCHANGED <<during, sessionPassword>>
    /\ dialogs' = Pop
    /\ UNCHANGED <<deviceConnected, events, client, devicePassword>>

\* setPasswordClicked after its dialog.
NewPassword(text) ==
    /\ Topmost("newPassword")
    /\ Wrapper(processComnand, Command("password", sessionPassword, text))
    /\ IF Posted(processComnand) THEN /\ during' = sessionPassword
                                      /\ sessionPassword' = text
                                 ELSE UNCHANGED <<during, sessionPassword>>
    /\ dialogs' = Pop
    /\ UNCHANGED <<deviceConnected, events, client, devicePassword>>

\* A dialog that nothing follows, or that the user cancels.
Dismiss == /\ \/ Topmost("notice") \/ Topmost("newPassword")
              \/ Topmost("invitation") \/ Topmost("question")
           /\ dialogs' = Pop
           /\ UNCHANGED <<processComnand, sessionPassword, during, deviceConnected,
                          events, queue, client, devicePassword>>

\* Mutant of WrongPassword: the question is asked on top of the warning.
BugAskOnTop == /\ Topmost("wrongPassword")
               /\ dialogs' = Push("ask")
               /\ UNCHANGED <<processComnand, sessionPassword, during, deviceConnected,
                              events, queue, client, devicePassword>>

\* "Password Wrong": try again.
WrongPassword == /\ Topmost("wrongPassword")
                 /\ dialogs' = Replace("ask")
                 /\ UNCHANGED <<processComnand, sessionPassword, during, deviceConnected,
                                events, queue, client, devicePassword>>

\* The device has no password: setPasswordClicked.
NoPasswordSet == /\ Topmost("noPasswordSet")
                 /\ sessionPassword' = NoPassword
                 /\ dialogs' = Replace("newPassword")
                 /\ UNCHANGED <<processComnand, during, deviceConnected, events, queue,
                                client, devicePassword>>

\* "Wallet Created", "Password Set": getInfo.
ThenInfo == /\ Topmost("thenInfo")
            /\ GetInfo(sessionPassword)
            /\ dialogs' = Pop
            /\ UNCHANGED <<sessionPassword, during, deviceConnected, events, client,
                           devicePassword>>

\* "Device was erased successfully": only now is the copy cleared.
Erased == /\ Topmost("erased")
          /\ during' = NoPassword
          /\ dialogs' = Pop
          /\ UNCHANGED <<processComnand, sessionPassword, deviceConnected, events, queue,
                         client, devicePassword>>

\* "reset password in case of an error".
RestorePassword == /\ sessionPassword' = during
                   /\ during' = NoPassword

\* The text of the touch button has been read; the branch of the tag follows.
TouchText == /\ \/ Topmost("textPassword") /\ dialogs' = Replace("notice")
                \/ Topmost("textErase") /\ dialogs' = Pop
             /\ RestorePassword
             /\ UNCHANGED <<processComnand, deviceConnected, events, queue, client,
                            devicePassword>>

\* _JoinCopayWallet after its dialog; JoinWallet may fail.
Invitation == /\ Topmost("invitation")
              /\ processComnand' \in {processComnand, FALSE}
              /\ dialogs' = Replace("notice")
              /\ UNCHANGED <<sessionPassword, during, deviceConnected, events, queue,
                             client, devicePassword>>

\* checkPaymentProposals goes on after its warning: there may be a proposal.
NoWallet == /\ Topmost("noWallet")
            /\ dialogs' \in {Pop, Replace("question")}
            /\ UNCHANGED <<processComnand, sessionPassword, during, deviceConnected,
                           events, queue, client, devicePassword>>

Sign == /\ Topmost("question")
        /\ Wrapper(processComnand, Command("sign", sessionPassword, NoPassword))
        /\ dialogs' = Pop
        /\ UNCHANGED <<sessionPassword, during, deviceConnected, events, client,
                       devicePassword>>
-----------------------------------------------------------------------------
(***************************************************************************)
(* The event loop, of the application or of a dialog, delivers a signal.   *)
(***************************************************************************)
Deliver(types) == /\ events # <<>>
                  /\ Head(events).type \in types
                  /\ events' = Tail(events)

\* changeConnectedState and checkDevice.
ConnectionChanged ==
    /\ Deliver({"link"})
    /\ deviceConnected' = Head(events).up
    /\ dialogs' = IF deviceConnected' /\ ~deviceConnected THEN Push("ask") ELSE dialogs
    /\ sessionPassword' = IF deviceConnected /\ ~deviceConnected' THEN NoPassword
                                                                  ELSE sessionPassword
    /\ UNCHANGED <<processComnand, during, queue, client, devicePassword>>

\* Mutant of Answer: the flag is reset only after the test for an object.
BugResetOnObject(tags, shapes) ==
    /\ Deliver({"response"})
    /\ IsResponse(Head(events), tags, shapes)
    /\ processComnand' = IF "none" \in shapes THEN processComnand ELSE FALSE
    /\ UNCHANGED <<deviceConnected, queue, client, devicePassword>>

\* parseResponse: every answer resets the flag, whatever it says; the rest of
\* it is the disjunct that calls this one.
Answer(tags, shapes) == /\ Deliver({"response"})
                        /\ IsResponse(Head(events), tags, shapes)
                        /\ processComnand' = FALSE
                        /\ UNCHANGED <<deviceConnected, queue, client, devicePassword>>

\* No object, or nothing to do for the tag.
AnswerIgnored == /\ \/ Answer(Tags, {"none"})
                    \/ Answer({"info", "led"}, {"success", "touch"})
                 /\ UNCHANGED <<sessionPassword, during, dialogs>>

\* An error object, whatever the command was.
ErrorAnswer == /\ \/ Answer(Tags, {"error108"}) /\ dialogs' = Push("wrongPassword")
                  \/ Answer(Tags, {"error101"}) /\ dialogs' = Push("noPasswordSet")
                  \/ Answer(Tags, {"error110", "error"}) /\ dialogs' = Push("notice")
               /\ UNCHANGED <<sessionPassword, during>>

\* touchbutton is a text: it is shown before the branch of the tag is taken.
TextAnswer == /\ \/ Answer(Tags \ Changes, {"text"}) /\ dialogs' = Push("notice")
                 \/ Answer({"password"}, {"text"}) /\ dialogs' = Push("textPassword")
                 \/ Answer({"erase"}, {"text"}) /\ dialogs' = Push("textErase")
              /\ UNCHANGED <<sessionPassword, during>>

SeedAnswer == /\ \/ Answer({"seed"}, {"success"}) /\ dialogs' = Push("thenInfo")
                 \/ Answer({"seed"}, {"touch"}) /\ dialogs' = Push("notice")
              /\ UNCHANGED <<sessionPassword, during>>

\* The answer to a change cannot be decrypted with the old password.
PasswordSet == /\ Answer({"password"}, {"success", "cipher"})
               /\ during' = NoPassword
               /\ dialogs' = Push("thenInfo")
               /\ UNCHANGED sessionPassword

EraseDone == /\ Answer({"erase"}, {"success"})
             /\ dialogs' = Push("erased")
             /\ UNCHANGED <<sessionPassword, during>>

ChangeRejected == /\ Answer(Changes, {"touch"})
                  /\ RestorePassword
                  /\ dialogs' = Push("notice")

\* showEchoVerification and postSignedPaymentProposal; neither touches the flag.
Signing == /\ Deliver({"echo", "signed"})
           /\ dialogs' = IF Head(events).type = "echo" THEN Push("notice") ELSE dialogs
           /\ UNCHANGED <<processComnand, sessionPassword, during, deviceConnected,
                          queue, client, devicePassword>>
-----------------------------------------------------------------------------
(***************************************************************************)
(* The device and the connection (external).                               *)
(***************************************************************************)
Effect(shape, password) == [shape |-> shape, password |-> password]

\* How the device may answer command c, and the password it has then.
Effects(c) ==
    IF devicePassword = NoPassword
    THEN IF c.tag = "password" /\ c.key = NoPassword
         THEN {Effect("success", c.new)}
         ELSE {Effect("error101", NoPassword)}
    ELSE IF c.key # devicePassword
    THEN {Effect("error108", devicePassword)}
           \cup {Effect("error110", NoPassword) : f \in Faults \cap {"reset"}}
    ELSE {Effect("error", devicePassword) : f \in Faults \cap {"error"}}
           \cup {Effect(f, devicePassword) :
                   f \in IF c.tag \in Changes \cup {"seed"} THEN Faults \cap {"touch", "text"}
                                                            ELSE {}}
           \cup CASE c.tag = "password" ->
                       {Effect(IF c.new = c.key THEN "success" ELSE "cipher", c.new)}
                  [] c.tag = "erase" -> {Effect("success", NoPassword)}
                  [] OTHER -> {Effect("success", devicePassword)}

\* The commands that may stay without an answer: unless transport fails, the
\* device is not unplugged while it has a change to make.
Unanswered(c) == c.tag \notin Changes \/ "transport" \in Faults

Response(tag, shape) == [type |-> "response", tag |-> tag, shape |-> shape]

\* The callback emits gotResponse, except that of checkPaymentProposals, which
\* emits something only when it finds an echo or a signature.
Emitted(c, shape) ==
    IF c.tag # "sign" THEN {<<Response(c.tag, shape)>>}
    ELSE IF shape = "success" THEN {<<[type |-> "echo"]>>, <<[type |-> "signed"]>>}
    ELSE {<<>>}

\* CommandService!Deliver: the oldest command is carried out and called back.
Execute == /\ queue # <<>>
           /\ queue' = Tail(queue)
           /\ \/ /\ \E effect \in Effects(Head(queue)) :
                       /\ devicePassword' = effect.password
                       /\ \E s \in Emitted(Head(queue), effect.shape) : events' = events \o s
              \/ /\ Unanswered(Head(queue))
                 /\ \E s \in Emitted(Head(queue), "none") : events' = events \o s
                 /\ UNCHANGED devicePassword
           /\ UNCHANGED <<processComnand, sessionPassword, during, deviceConnected, dialogs,
                          client>>

\* usbCheckThread, once widget is assigned: see module DeviceLink.
Announce == /\ "askAtStart" \notin {dialogs[i] : i \in DOMAIN dialogs}
            /\ Len(dialogs) + Len(events) < MaxDialogs
            /\ \E up \in BOOLEAN : events' = Append(events, [type |-> "link", up |-> up])
            /\ UNCHANGED <<processComnand, sessionPassword, during, deviceConnected, dialogs,
                           queue, client, devicePassword>>
-----------------------------------------------------------------------------
Click == Led \/ Seed \/ Erase \/ SetPassword \/ Join \/ CheckProposals

Close == \/ \E text \in MaybePassword : Ask(text)
         \/ \E text \in Passwords : NewPassword(text)
         \/ Dismiss \/ WrongPassword \/ NoPasswordSet \/ ThenInfo \/ Erased \/ TouchText
         \/ Invitation \/ NoWallet \/ Sign

Dispatch == \/ ConnectionChanged \/ AnswerIgnored \/ ErrorAnswer \/ TextAnswer
            \/ SeedAnswer \/ PasswordSet \/ EraseDone \/ ChangeRejected \/ Signing

Next == Click \/ Close \/ Dispatch \/ Execute \/ Announce

SafeSpec == Init /\ [][Next]_vars

\* The worker carries out what is queued (CommandService) and the main thread
\* runs an event loop, in a dialog or not.  The user owes nothing: he may
\* leave every dialog open for ever.
Spec == SafeSpec /\ WF_vars(Execute) /\ WF_vars(Dispatch)
-----------------------------------------------------------------------------
(***************************************************************************)
(* Properties.                                                             *)
(***************************************************************************)
\* The types of the members of DBBDaemonGui.
TypeOK == /\ processComnand \in BOOLEAN
          /\ sessionPassword \in MaybePassword
          /\ during \in MaybePassword
          /\ deviceConnected \in BOOLEAN
          /\ dialogs \in Seq(Dialogs)
          /\ events \in Seq(Events)
          /\ queue \in Seq(Commands)
          /\ copayFile \in BOOLEAN
          /\ seeded \in BOOLEAN
          /\ devicePassword \in MaybePassword

\* Nothing but an announced connection nests dialogs without end: a handler
\* that goes on opens one dialog in place of the one that was closed, or posts
\* one command whose answer opens one, and clicks need a window without
\* dialogs (the calls of QMessageBox and QInputDialog in lines 152-693).
BoundedNesting == Len(dialogs) + Len(events) + Len(queue) <= MaxDialogs + 2

AnswersDue == {i \in DOMAIN events : events[i].type = "response"}

\* "the UI should only post one command into the queue" (line 302): of this
\* window there is never more than one command in the queue or answer on its
\* way.  executeCommand would block the main thread for a second one, since
\* the worker keeps the mutex until it has carried out the first.
SingleCommand ==
    /\ Len(queue) <= 1
    /\ queue # <<>> => AnswersDue = {}
    /\ \A i, j \in AnswersDue : i = j

\* The flag is set exactly while a command is in the queue or its answer on
\* its way: the window neither posts too early nor refuses for nothing.
FlagMeansCommand == processComnand <=> queue # <<>> \/ AnswersDue # {}

\* The window is not left busy for ever, even if no dialog is ever closed.
BusyEnds == processComnand ~> ~processComnand

\* A change that the device has rejected at its touch button is still to be
\* undone: what sessionPassword is about to be reset to is the password of the
\* device, or empty; never an outdated or a new one (lines 493 and 574).
RestoresRightPassword ==
    (\/ \E i \in DOMAIN events : IsResponse(events[i], Changes, {"touch", "text"})
     \/ \E i \in DOMAIN dialogs : dialogs[i] \in {"textPassword", "textErase"})
      => during \in {NoPassword, devicePassword}

\* The copy of the session password is taken, and the file of the copay
\* client given up, only with a change that really is in the queue.
CopyOnlyWithCommand ==
    [][(during' # during /\ during' # NoPassword) \/ copayFile' # copayFile
         => Len(queue') = Len(queue) + 1]_vars

\* "reset password in case of an error" (lines 493 and 573), said of every
\* answer from which the change cannot have happened.
ErrorRestoresPassword ==
    [][Deliver({"response"}) /\ IsResponse(Head(events), Changes, {"touch", "error", "none"})
         => sessionPassword' = during]_vars
=============================================================================
