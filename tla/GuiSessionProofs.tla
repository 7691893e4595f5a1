-------------------------- MODULE GuiSessionProofs --------------------------
(***************************************************************************)
(* Theorems about GuiSession, for all passwords, faults and bounds.        *)
(***************************************************************************)
EXTENDS GuiSession, SequenceTheorems, TLAPS

(***************************************************************************)
(* Types.                                                                  *)
(***************************************************************************)
\* The stack of the handlers that wait for a dialog.
LEMMA StackTypes ==
    ASSUME TypeOK, NEW d \in Dialogs
    PROVE  /\ Push(d) \in Seq(Dialogs)
           /\ dialogs # <<>> => Pop \in Seq(Dialogs) /\ Replace(d) \in Seq(Dialogs)
  <1>1. <<d>> \in Seq(Dialogs)
    OBVIOUS
  <1>2. dialogs # <<>> => Pop \in Seq(Dialogs)
    BY HeadTailProperties DEF TypeOK, Pop
  <1> QED
    BY <1>1, <1>2, ConcatProperties DEF TypeOK, Push, Replace

LEMMA CommandTypes ==
    ASSUME NEW tag \in Tags, NEW key \in MaybePassword, NEW new \in MaybePassword
    PROVE  Command(tag, key, new) \in Commands
  BY DEF Command, Commands

LEMMA PostTypes ==
    ASSUME TypeOK, NEW busy \in BOOLEAN, NEW c \in Commands, Wrapper(busy, c)
    PROVE  processComnand' \in BOOLEAN /\ queue' \in Seq(Commands)
  <1>1. queue \in Seq(Commands)
    BY DEF TypeOK
  <1>2. Append(queue, c) \in Seq(Commands)
    BY <1>1, AppendProperties
  <1> QED
    BY <1>1, <1>2 DEF Wrapper

\* What the event loop takes from its queue.
LEMMA DeliverTypes ==
    ASSUME TypeOK, NEW types, Deliver(types)
    PROVE  Head(events) \in Events /\ events' \in Seq(Events)
  BY HeadTailProperties DEF TypeOK, Deliver

LEMMA EffectTypes ==
    ASSUME TypeOK, NEW c \in Commands, NEW effect \in Effects(c)
    PROVE  effect.shape \in Shapes /\ effect.password \in MaybePassword
  <1>1. c.tag \in Tags /\ c.key \in MaybePassword /\ c.new \in MaybePassword
    BY DEF Commands
  <1>2. Faults \subseteq FaultNames /\ NoPassword \in MaybePassword
    BY SessionAssumption DEF MaybePassword
  <1> USE DEF Effect, Shapes, Errors, TypeOK
  <1>3. CASE devicePassword = NoPassword
    BY <1>1, <1>2, <1>3 DEF Effects
  <1>4. CASE devicePassword # NoPassword /\ c.key # devicePassword
    BY <1>1, <1>2, <1>4 DEF Effects
  <1>5. CASE devicePassword # NoPassword /\ c.key = devicePassword
    <2>1. \/ \E f \in Faults \cap {"error"} : effect = Effect("error", devicePassword)
          \/ \E f \in Faults \cap {"touch", "text"} : effect = Effect(f, devicePassword)
          \/ effect = Effect("success", c.new) \/ effect = Effect("cipher", c.new)
          \/ effect = Effect("success", NoPassword)
          \/ effect = Effect("success", devicePassword)
      <3>1. CASE c.tag = "password"
        BY <1>5, <3>1 DEF Effects
      <3>2. CASE c.tag = "erase"
        BY <1>5, <3>2 DEF Effects
      <3>3. CASE c.tag \notin Changes
        BY <1>5, <3>3 DEF Effects, Changes
      <3> QED
        BY <3>1, <3>2, <3>3 DEF Changes
    <2> QED
      BY <2>1, <1>1, <1>2
  <1> QED
    BY <1>3, <1>4, <1>5

LEMMA EmittedTypes ==
    ASSUME NEW c \in Commands, NEW shape \in Shapes, NEW s \in Emitted(c, shape)
    PROVE  s \in Seq(Events)
  <1>1. c.tag \in Tags
    BY DEF Commands
  <1>2. Response(c.tag, shape) \in Events
    BY <1>1 DEF Response, Events, Responses
  <1>3. [type |-> "echo"] \in Events /\ [type |-> "signed"] \in Events
    BY DEF Events, Signings
  <1>4. \/ s = <<Response(c.tag, shape)>>
        \/ s = <<[type |-> "echo"]>> \/ s = <<[type |-> "signed"]>>
        \/ s = <<>>
    BY DEF Emitted
  <1>5. \A e \in Events : <<e>> \in Seq(Events)
    OBVIOUS
  <1>6. <<>> \in Seq(Events)
    BY EmptySeq
  <1> QED
    BY <1>2, <1>3, <1>4, <1>5, <1>6

LEMMA InitTypes == Init => TypeOK
  <1> SUFFICES ASSUME Init PROVE TypeOK
    OBVIOUS
  <1>1. <<"askAtStart">> \in Seq(Dialogs) /\ <<>> \in Seq(Dialogs)
    BY EmptySeq DEF Dialogs
  <1> QED
    BY <1>1, EmptySeq, SessionAssumption DEF Init, TypeOK, MaybePassword

LEMMA ClickTypes == ASSUME TypeOK, Click PROVE TypeOK'
  <1>0. NoPassword \in MaybePassword
    BY DEF MaybePassword
  <1>1. ASSUME NEW tag \in Tags, Wrapper(processComnand, Command(tag, sessionPassword, NoPassword))
        PROVE  processComnand' \in BOOLEAN /\ queue' \in Seq(Commands)
    BY <1>0, <1>1, CommandTypes, PostTypes DEF TypeOK
  <1>2. CASE Led
    BY <1>1, <1>2 DEF Led, TypeOK, Tags, client
  <1>3. CASE Seed
    BY <1>1, <1>3 DEF Seed, TypeOK, Tags, client
  <1>4. CASE Erase
    <2>1. processComnand' \in BOOLEAN /\ queue' \in Seq(Commands)
      BY <1>1, <1>4 DEF Erase, Tags
    <2> QED
      BY <1>0, <2>1, <1>4 DEF Erase, TypeOK
  <1>5. CASE SetPassword
    BY <1>5, StackTypes DEF SetPassword, TypeOK, Dialogs, client
  <1>6. CASE Join
    <2>1. dialogs' \in Seq(Dialogs)
      BY <1>6, StackTypes DEF Join, TypeOK, Dialogs
    <2>2. processComnand' \in BOOLEAN /\ queue' = queue
      BY <1>6 DEF Join, SendCommand, Wrapper
    <2> QED
      BY <2>1, <2>2, <1>6 DEF Join, TypeOK, client
  <1>7. CASE CheckProposals
    BY <1>7, StackTypes DEF CheckProposals, TypeOK, Dialogs, client
  <1> QED
    BY <1>2, <1>3, <1>4, <1>5, <1>6, <1>7 DEF Click

LEMMA CloseTypes == ASSUME TypeOK, Close PROVE TypeOK'
  <1>0. NoPassword \in MaybePassword /\ Passwords \subseteq MaybePassword
    BY DEF MaybePassword
  <1>1. /\ dialogs # <<>> => Pop \in Seq(Dialogs)
        /\ \A d \in Dialogs : dialogs # <<>> => Replace(d) \in Seq(Dialogs)
    BY StackTypes DEF Dialogs
  <1>2. ASSUME NEW text \in MaybePassword, Ask(text)
        PROVE  TypeOK'
    <2> DEFINE password == IF text = NoPassword THEN sessionPassword ELSE text
    <2>1. password \in MaybePassword
      BY DEF TypeOK
    <2>2. Command("info", password, NoPassword) \in Commands
      BY <2>1, <1>0, CommandTypes DEF Tags
    <2>3. Append(queue, Command("info", password, NoPassword)) \in Seq(Commands)
      BY <2>2, AppendProperties DEF TypeOK
    <2>4. processComnand' \in BOOLEAN /\ queue' \in Seq(Commands)
      BY <1>2, <2>2, <2>3 DEF Ask, GetInfo, Wrapper, TypeOK
    <2>5. dialogs' \in Seq(Dialogs)
      BY <1>1, <1>2 DEF Ask, Topmost
    <2>6. sessionPassword' \in MaybePassword
      BY <2>1, <1>2 DEF Ask
    <2> QED
      BY <2>4, <2>5, <2>6, <1>2 DEF Ask, TypeOK, client
  <1>3. ASSUME NEW text \in Passwords, NewPassword(text)
        PROVE  TypeOK'
    <2>1. Command("password", sessionPassword, text) \in Commands
      BY <1>0, CommandTypes DEF TypeOK, Tags
    <2>2. processComnand' \in BOOLEAN /\ queue' \in Seq(Commands)
      BY <2>1, <1>3, PostTypes DEF NewPassword, TypeOK
    <2>3. dialogs' \in Seq(Dialogs)
      BY <1>1, <1>3 DEF NewPassword, Topmost
    <2> QED
      BY <2>2, <2>3, <1>0, <1>3 DEF NewPassword, TypeOK, client
  <1>4. CASE Dismiss
    BY <1>1, <1>4 DEF Dismiss, Topmost, TypeOK, client
  <1>5. CASE WrongPassword \/ NoPasswordSet
    BY <1>0, <1>1, <1>5 DEF WrongPassword, NoPasswordSet, Topmost, TypeOK, Dialogs, client
  <1>6. CASE ThenInfo
    <2>1. Command("info", sessionPassword, NoPassword) \in Commands
      BY <1>0, CommandTypes DEF TypeOK, Tags
    <2>2. processComnand' \in BOOLEAN /\ queue' \in Seq(Commands)
      BY <2>1, <1>6, PostTypes DEF ThenInfo, GetInfo, TypeOK
    <2> QED
      BY <2>2, <1>1, <1>6 DEF ThenInfo, Topmost, TypeOK, client
  <1>7. CASE Erased
    BY <1>0, <1>1, <1>7 DEF Erased, Topmost, TypeOK, client
  <1>8. CASE TouchText
    BY <1>0, <1>1, <1>8 DEF TouchText, RestorePassword, Topmost, TypeOK, Dialogs, client
  <1>9. CASE Invitation \/ NoWallet
    BY <1>1, <1>9 DEF Invitation, NoWallet, Topmost, TypeOK, Dialogs, client
  <1>10. CASE Sign
    <2>1. Command("sign", sessionPassword, NoPassword) \in Commands
      BY <1>0, CommandTypes DEF TypeOK, Tags
    <2>2. processComnand' \in BOOLEAN /\ queue' \in Seq(Commands)
      BY <2>1, <1>10, PostTypes DEF Sign, TypeOK
    <2> QED
      BY <2>2, <1>1, <1>10 DEF Sign, Topmost, TypeOK, client
  <1> QED
    BY <1>2, <1>3, <1>4, <1>5, <1>6, <1>7, <1>8, <1>9, <1>10 DEF Close

LEMMA DispatchTypes == ASSUME TypeOK, Dispatch PROVE TypeOK'
  <1>0. NoPassword \in MaybePassword
    BY DEF MaybePassword
  <1>1. \A d \in Dialogs : Push(d) \in Seq(Dialogs)
    BY StackTypes
  <1>2. CASE ConnectionChanged
    <2>1. Head(events) \in Events /\ Head(events).type = "link" /\ events' \in Seq(Events)
      BY <1>2, DeliverTypes DEF ConnectionChanged, Deliver
    <2>2. Head(events).up \in BOOLEAN
      BY <2>1 DEF Events, Links, Responses, Signings
    <2>3. dialogs' \in Seq(Dialogs)
      BY <1>1, <1>2 DEF ConnectionChanged, TypeOK, Dialogs
    <2> QED
      BY <1>0, <1>2, <2>1, <2>2, <2>3 DEF ConnectionChanged, TypeOK, client
  <1>3. ASSUME NEW tags, NEW shapes, Answer(tags, shapes)
        PROVE  /\ events' \in Seq(Events)
               /\ processComnand' \in BOOLEAN
               /\ UNCHANGED <<deviceConnected, queue, copayFile, seeded, devicePassword>>
    BY <1>3, DeliverTypes DEF Answer, client
  <1>4. CASE AnswerIgnored
    BY <1>3, <1>4 DEF AnswerIgnored, TypeOK
  <1>5. CASE ErrorAnswer
    BY <1>1, <1>3, <1>5 DEF ErrorAnswer, TypeOK, Dialogs
  <1>6. CASE TextAnswer
    BY <1>1, <1>3, <1>6 DEF TextAnswer, TypeOK, Dialogs
  <1>7. CASE SeedAnswer
    BY <1>1, <1>3, <1>7 DEF SeedAnswer, TypeOK, Dialogs
  <1>8. CASE PasswordSet \/ EraseDone
    BY <1>0, <1>1, <1>3, <1>8 DEF PasswordSet, EraseDone, TypeOK, Dialogs
  <1>9. CASE ChangeRejected
    BY <1>0, <1>1, <1>3, <1>9 DEF ChangeRejected, RestorePassword, TypeOK, Dialogs
  <1>10. CASE Signing
    <2>1. events' \in Seq(Events)
      BY <1>10, DeliverTypes DEF Signing
    <2>2. dialogs' \in Seq(Dialogs)
      BY <1>1, <1>10 DEF Signing, TypeOK, Dialogs
    <2> QED
      BY <2>1, <2>2, <1>10 DEF Signing, TypeOK, client
  <1> QED
    BY <1>2, <1>4, <1>5, <1>6, <1>7, <1>8, <1>9, <1>10 DEF Dispatch

LEMMA OtherTypes == ASSUME TypeOK, Execute \/ Announce PROVE TypeOK'
  <1>1. CASE Execute
    <2>1. Head(queue) \in Commands /\ queue' \in Seq(Commands)
      BY <1>1, HeadTailProperties DEF Execute, TypeOK
    <2>2. \E shape \in Shapes, s \in Seq(Events) :
             /\ s \in Emitted(Head(queue), shape)
             /\ events' = events \o s
             /\ devicePassword' \in MaybePassword
      <3>1. CASE \E effect \in Effects(Head(queue)) :
                   /\ devicePassword' = effect.password
                   /\ \E s \in Emitted(Head(queue), effect.shape) : events' = events \o s
        BY <3>1, <2>1, EffectTypes, EmittedTypes
      <3>2. CASE /\ \E s \in Emitted(Head(queue), "none") : events' = events \o s
                 /\ UNCHANGED devicePassword
        <4>1. "none" \in Shapes
          BY DEF Shapes
        <4> QED
          BY <3>2, <4>1, <2>1, EmittedTypes DEF TypeOK
      <3> QED
        BY <3>1, <3>2, <1>1 DEF Execute
    <2>3. events' \in Seq(Events)
      BY <2>2, ConcatProperties DEF TypeOK
    <2> QED
      BY <1>1, <2>1, <2>2, <2>3 DEF Execute, TypeOK, client
  <1>2. CASE Announce
    <2>1. \A b \in BOOLEAN : [type |-> "link", up |-> b] \in Events
      BY DEF Events, Links
    <2>2. events' \in Seq(Events)
      BY <1>2, <2>1, AppendProperties DEF Announce, TypeOK
    <2> QED
      BY <1>2, <2>2 DEF Announce, TypeOK, client
  <1> QED
    BY <1>1, <1>2

LEMMA NextTypes == TypeOK /\ [Next]_vars => TypeOK'
  <1> SUFFICES ASSUME TypeOK, [Next]_vars PROVE TypeOK'
    OBVIOUS
  <1>1. CASE UNCHANGED vars
    BY <1>1 DEF vars, TypeOK
  <1> QED
    BY <1>1, ClickTypes, CloseTypes, DispatchTypes, OtherTypes DEF Next

\* The members of DBBDaemonGui, its dialogs and its signals keep their types.
THEOREM TypeCorrect == Spec => []TypeOK
  BY InitTypes, NextTypes, PTL DEF Spec, SafeSpec
-----------------------------------------------------------------------------
(***************************************************************************)
(* One command at a time.  What breaks it is left out: "join" resets the   *)
(* flag of a command that is under way, and a device that is there at the  *)
(* start is asked before the constructor has initialised the flag.  After  *)
(* "proposals" the flag may stay set, since no answer resets it: then the  *)
(* window refuses for nothing, but it still never posts too early.         *)
(***************************************************************************)
Guarded == "join" \notin Buttons /\ ~ConnectedAtStart
Plain == Guarded /\ "proposals" \notin Buttons

\* The handlers of what is left out, which no dialog keeps waiting.
Absent == {"askAtStart", "invitation"}
             \cup (IF "proposals" \in Buttons THEN {} ELSE {"noWallet", "question"})

HandlersInv == \A i \in 1..Len(dialogs) : dialogs[i] \notin Absent

\* What is under way is behind a flag that is set.
FlagInv == /\ queue # <<>> \/ AnswersDue # {} => processComnand
           /\ "proposals" \notin Buttons => FlagMeansCommand

\* Every command in the queue will be answered with gotResponse.
CommandsInv == "proposals" \notin Buttons => \A i \in 1..Len(queue) : queue[i].tag # "sign"

OneInv == SingleCommand /\ FlagInv /\ CommandsInv

IInv == Guarded /\ TypeOK /\ HandlersInv /\ OneInv

LEMMA InitInv == Init /\ Guarded => IInv
  <1> SUFFICES ASSUME Init, Guarded PROVE IInv
    OBVIOUS
  <1>1. dialogs = <<>> /\ events = <<>> /\ queue = <<>> /\ processComnand = FALSE
    BY DEF Init, Guarded
  <1>2. AnswersDue = {}
    BY <1>1 DEF AnswersDue
  <1> QED
    BY <1>1, <1>2, InitTypes
       DEF IInv, HandlersInv, OneInv, CommandsInv, SingleCommand, FlagInv, FlagMeansCommand

LEMMA IndexTypes ==
    ASSUME TypeOK
    PROVE  /\ DOMAIN events = 1..Len(events) /\ Len(events) \in Nat
           /\ DOMAIN queue = 1..Len(queue) /\ Len(queue) \in Nat
           /\ DOMAIN dialogs = 1..Len(dialogs) /\ Len(dialogs) \in Nat
  BY LenProperties DEF TypeOK

\* A button or a closed dialog posts a command.
LEMMA PostOne ==
    ASSUME TypeOK, OneInv, UNCHANGED events,
           NEW tag \in Tags, tag = "sign" => "proposals" \in Buttons, NEW key, NEW new,
           Wrapper(processComnand, Command(tag, key, new))
    PROVE  OneInv'
  <1>1. AnswersDue' = AnswersDue
    BY DEF AnswersDue
  <1>2. CASE processComnand
    BY <1>1, <1>2 DEF Wrapper, OneInv, SingleCommand, FlagInv, FlagMeansCommand, CommandsInv
  <1>3. CASE ~processComnand
    <2>1. queue = <<>> /\ AnswersDue = {}
      BY <1>3 DEF OneInv, FlagInv
    <2>2. queue' = <<Command(tag, key, new)>> /\ processComnand' = TRUE
      BY <1>3, <2>1 DEF Wrapper
    <2>3. Len(queue') = 1 /\ queue' # <<>> /\ queue'[1].tag = tag
      BY <2>2 DEF Command
    <2> QED
      BY <1>1, <2>1, <2>2, <2>3 DEF OneInv, SingleCommand, FlagInv, FlagMeansCommand, CommandsInv
  <1> QED
    BY <1>2, <1>3

\* Neither the flag nor the queue nor the answers are concerned.
LEMMA KeepOne ==
    ASSUME OneInv, UNCHANGED <<processComnand, queue, events>>
    PROVE  OneInv'
  BY DEF OneInv, SingleCommand, FlagInv, FlagMeansCommand, CommandsInv, AnswersDue

LEMMA DeliverIndex ==
    ASSUME TypeOK, NEW types, Deliver(types)
    PROVE  /\ Len(events') = Len(events) - 1
           /\ DOMAIN events' = 1..Len(events) - 1
           /\ Len(events) \in Nat \ {0}
           /\ Head(events) = events[1]
           /\ \A i \in 1..Len(events) - 1 : events'[i] = events[i + 1]
  <1>1. events \in Seq(Events) /\ events # <<>> /\ events' = Tail(events)
    BY DEF TypeOK, Deliver
  <1>2. Len(events) \in Nat /\ Len(events) # 0
    BY <1>1, EmptySeq, LenProperties
  <1> QED
    BY <1>1, <1>2, HeadTailProperties, LenProperties

\* A change of the connection, or a signature, is delivered.
LEMMA DeliverOther ==
    ASSUME TypeOK, OneInv, NEW types, Deliver(types), "response" \notin types,
           UNCHANGED <<processComnand, queue>>
    PROVE  OneInv'
  <1>0. /\ Len(events') = Len(events) - 1
        /\ DOMAIN events' = 1..Len(events) - 1
        /\ Len(events) \in Nat \ {0}
        /\ Head(events) = events[1]
        /\ \A i \in 1..Len(events) - 1 : events'[i] = events[i + 1]
        /\ DOMAIN events = 1..Len(events)
    BY DeliverIndex, IndexTypes
  <1>1. events[1].type # "response"
    BY <1>0 DEF Deliver
  <1>2. AnswersDue = {} <=> AnswersDue' = {}
    <2>1. \A i \in AnswersDue' : i + 1 \in AnswersDue
      BY <1>0 DEF AnswersDue
    <2>2. \A i \in AnswersDue : i - 1 \in AnswersDue'
      BY <1>0, <1>1 DEF AnswersDue
    <2> QED
      BY <2>1, <2>2
  <1>3. \A i, j \in AnswersDue' : i = j
    <2> SUFFICES ASSUME NEW i \in AnswersDue', NEW j \in AnswersDue' PROVE i = j
      OBVIOUS
    <2>1. i + 1 \in AnswersDue /\ j + 1 \in AnswersDue /\ i \in Nat /\ j \in Nat
      BY <1>0 DEF AnswersDue
    <2>2. i + 1 = j + 1
      BY <2>1 DEF OneInv, SingleCommand
    <2> QED
      BY <2>1, <2>2
  <1> QED
    BY <1>2, <1>3 DEF OneInv, SingleCommand, FlagInv, FlagMeansCommand, CommandsInv

\* The only answer is delivered.
LEMMA DeliverAnswer ==
    ASSUME TypeOK, OneInv, NEW tags, NEW shapes, Answer(tags, shapes)
    PROVE  OneInv'
  <1>1. Deliver({"response"}) /\ Head(events).type = "response"
    BY DEF Answer, Deliver
  <1>0. /\ Len(events') = Len(events) - 1
        /\ DOMAIN events' = 1..Len(events) - 1
        /\ Len(events) \in Nat \ {0}
        /\ Head(events) = events[1]
        /\ \A i \in 1..Len(events) - 1 : events'[i] = events[i + 1]
        /\ DOMAIN events = 1..Len(events)
    BY <1>1, DeliverIndex, IndexTypes
  <1>2. 1 \in AnswersDue
    BY <1>0, <1>1 DEF AnswersDue
  <1>3. AnswersDue' = {}
    <2> SUFFICES ASSUME NEW i \in AnswersDue' PROVE FALSE
      OBVIOUS
    <2>1. i + 1 \in AnswersDue /\ i \in Nat \ {0}
      BY <1>0 DEF AnswersDue
    <2> QED
      BY <1>2, <2>1 DEF OneInv, SingleCommand
  <1>4. queue = <<>> /\ queue' = <<>> /\ processComnand' = FALSE
    BY <1>2 DEF OneInv, SingleCommand, Answer
  <1> QED
    BY <1>3, <1>4 DEF OneInv, SingleCommand, FlagInv, FlagMeansCommand, CommandsInv

\* The command that is carried out is the only thing under way.  What answers
\* it is one signal or, for the signature of a proposal, at most one, which is
\* no gotResponse.
LEMMA ExecuteEvents ==
    ASSUME TypeOK, OneInv, Execute
    PROVE  /\ Len(queue) = 1 /\ queue[1] \in Commands /\ queue' = <<>> /\ AnswersDue = {}
           /\ processComnand
           /\ \E shape \in Shapes, s \in Seq(Events) :
                /\ events' = events \o s
                /\ \/ \E effect \in Effects(queue[1]) :
                        shape = effect.shape /\ devicePassword' = effect.password
                   \/ shape = "none" /\ UNCHANGED devicePassword
                /\ \/ queue[1].tag # "sign" /\ s = <<Response(queue[1].tag, shape)>>
                   \/ /\ queue[1].tag = "sign" /\ Len(s) <= 1
                      /\ \A i \in 1..Len(s) : s[i].type # "response"
  <1>1. queue # <<>> /\ Len(queue) = 1 /\ AnswersDue = {} /\ processComnand
    BY IndexTypes, EmptySeq DEF Execute, OneInv, SingleCommand, FlagInv, TypeOK
  <1> DEFINE c == queue[1]
  <1>2. c = Head(queue) /\ c \in Commands
    BY <1>1, HeadTailProperties DEF TypeOK
  <1>3. queue' = <<>>
    BY <1>1, HeadTailProperties, EmptySeq DEF Execute, TypeOK
  <1>4. "none" \in Shapes
    BY DEF Shapes
  <1>5. PICK shape \in Shapes :
           /\ \E s \in Emitted(c, shape) : events' = events \o s
           /\ \/ \E effect \in Effects(c) :
                   shape = effect.shape /\ devicePassword' = effect.password
              \/ shape = "none" /\ UNCHANGED devicePassword
    BY <1>2, <1>4, EffectTypes DEF Execute
  <1>6. PICK s \in Emitted(c, shape) : events' = events \o s
    BY <1>5
  <1>7. s \in Seq(Events)
    BY <1>2, EmittedTypes
  <1>8. CASE c.tag # "sign"
    <2>1. s = <<Response(c.tag, shape)>>
      BY <1>6, <1>8 DEF Emitted
    <2> QED
      BY <1>1, <1>2, <1>3, <1>5, <1>6, <1>7, <1>8, <2>1
  <1>9. CASE c.tag = "sign"
    <2>1. s = <<>> \/ s = <<[type |-> "echo"]>> \/ s = <<[type |-> "signed"]>>
      BY <1>6, <1>9 DEF Emitted
    <2>2. ASSUME NEW e, e.type # "response"
          PROVE  Len(<<e>>) = 1 /\ \A i \in 1..Len(<<e>>) : <<e>>[i].type # "response"
      BY <2>2
    <2>3. Len(s) <= 1 /\ \A i \in 1..Len(s) : s[i].type # "response"
      <3>1. CASE s = <<>>
        BY <3>1
      <3>2. CASE s = <<[type |-> "echo"]>>
        BY <2>2, <3>2
      <3>3. CASE s = <<[type |-> "signed"]>>
        BY <2>2, <3>3
      <3> QED
        BY <2>1, <3>1, <3>2, <3>3
    <2> QED
      BY <1>1, <1>2, <1>3, <1>5, <1>6, <1>7, <1>9, <2>3
  <1> QED
    BY <1>8, <1>9

\* The only command is carried out; its answer, if any, is on its way.
LEMMA ExecuteOne == ASSUME TypeOK, OneInv, Execute PROVE OneInv'
  <1>1. Len(queue) = 1 /\ queue' = <<>> /\ AnswersDue = {} /\ processComnand
    BY ExecuteEvents
  <1>2. Len(queue') = 0 /\ processComnand' = processComnand
    BY <1>1, EmptySeq DEF Execute
  <1>3. PICK s \in Seq(Events), shape \in Shapes :
           /\ events' = events \o s
           /\ \/ queue[1].tag # "sign" /\ s = <<Response(queue[1].tag, shape)>>
              \/ /\ queue[1].tag = "sign" /\ Len(s) <= 1
                 /\ \A i \in 1..Len(s) : s[i].type # "response"
    BY ExecuteEvents
  <1>4. /\ DOMAIN events' = 1..Len(events) + Len(s)
        /\ DOMAIN events = 1..Len(events)
        /\ Len(events) \in Nat /\ Len(s) \in Nat
        /\ \A i \in 1..Len(events) + Len(s) :
             events'[i] = IF i <= Len(events) THEN events[i] ELSE s[i - Len(events)]
    BY <1>3, ConcatProperties, LenProperties, IndexTypes DEF TypeOK
  <1>5. \A i \in 1..Len(events) : events'[i].type # "response"
    BY <1>1, <1>4 DEF AnswersDue
  <1>6. CASE queue[1].tag # "sign"
    <2>1. Len(s) = 1 /\ s[1].type = "response"
      BY <1>3, <1>6 DEF Response
    <2>2. events'[Len(events) + 1] = s[1]
      BY <1>4, <2>1
    <2>3. AnswersDue' = {Len(events) + 1}
      BY <1>4, <1>5, <2>1, <2>2 DEF AnswersDue
    <2> QED
      BY <1>1, <1>2, <2>3 DEF OneInv, SingleCommand, FlagInv, FlagMeansCommand, CommandsInv
  <1>7. CASE queue[1].tag = "sign"
    <2>1. "proposals" \in Buttons
      BY <1>1, <1>7 DEF OneInv, CommandsInv
    <2>2. AnswersDue' = {}
      <3> SUFFICES ASSUME NEW i \in AnswersDue' PROVE FALSE
        OBVIOUS
      <3>1. i \in 1..Len(events) + Len(s) /\ events'[i].type = "response"
        BY <1>4 DEF AnswersDue
      <3>2. i - Len(events) \in 1..Len(s) /\ events'[i] = s[i - Len(events)]
        BY <1>4, <1>5, <3>1
      <3> QED
        BY <1>3, <1>7, <3>1, <3>2
    <2> QED
      BY <1>1, <1>2, <2>1, <2>2 DEF OneInv, SingleCommand, FlagInv, CommandsInv
  <1> QED
    BY <1>6, <1>7

LEMMA AnnounceOne == ASSUME TypeOK, OneInv, Announce PROVE OneInv'
  <1>1. PICK up \in BOOLEAN : events' = Append(events, [type |-> "link", up |-> up])
    BY DEF Announce
  <1>2. [type |-> "link", up |-> up] \in Events
    BY DEF Events, Links
  <1>3. /\ DOMAIN events' = 1..Len(events) + 1
        /\ DOMAIN events = 1..Len(events)
        /\ Len(events) \in Nat
        /\ events'[Len(events) + 1].type = "link"
        /\ \A i \in 1..Len(events) : events'[i] = events[i]
    BY <1>1, <1>2, AppendProperties, LenProperties, IndexTypes DEF TypeOK
  <1>4. AnswersDue' = AnswersDue
    BY <1>3 DEF AnswersDue
  <1>5. UNCHANGED <<processComnand, queue>>
    BY DEF Announce
  <1> QED
    BY <1>4, <1>5 DEF OneInv, SingleCommand, FlagInv, FlagMeansCommand, CommandsInv

\* What is left out opens no dialog; no other handler opens its dialogs.
LEMMA NextHandlers == ASSUME IInv, Next PROVE HandlersInv'
  <1>1. dialogs \in Seq(Dialogs) /\ Len(dialogs) \in Nat
    BY IndexTypes DEF IInv, TypeOK
  <1>2. dialogs # <<>> => /\ Head(dialogs) \notin Absent
                          /\ Len(dialogs) # 0
                          /\ Pop \in Seq(Dialogs)
                          /\ Len(Pop) = Len(dialogs) - 1
                          /\ \A i \in 1..Len(Pop) : Pop[i] \notin Absent
    BY <1>1, HeadTailProperties, EmptySeq DEF IInv, HandlersInv, Pop
  <1>3. ASSUME NEW d \in Dialogs \ Absent
        PROVE  /\ dialogs' = Push(d) => HandlersInv'
               /\ dialogs # <<>> /\ dialogs' = Replace(d) => HandlersInv'
    <2>1. ASSUME NEW rest \in Seq(Dialogs), \A i \in 1..Len(rest) : rest[i] \notin Absent,
                 dialogs' = <<d>> \o rest
          PROVE  HandlersInv'
      <3>1. <<d>> \in Seq(Dialogs) /\ Len(<<d>>) = 1 /\ <<d>>[1] = d /\ Len(rest) \in Nat
        BY LenProperties
      <3>2. /\ Len(dialogs') = 1 + Len(rest)
            /\ \A i \in 1..1 + Len(rest) : dialogs'[i] = IF i <= 1 THEN <<d>>[i] ELSE rest[i - 1]
        BY <2>1, <3>1, ConcatProperties
      <3> QED
        BY <2>1, <3>1, <3>2 DEF HandlersInv
    <2> QED
      BY <1>1, <1>2, <2>1 DEF Push, Replace, IInv, HandlersInv
  <1>4. /\ dialogs' = dialogs => HandlersInv'
        /\ dialogs # <<>> /\ dialogs' = Pop => HandlersInv'
    BY <1>2 DEF IInv, HandlersInv
  <1>5. CASE Click
    BY <1>3, <1>4, <1>5 DEF Click, Led, Seed, Erase, SetPassword, Join, CheckProposals,
       Clickable, IInv, Guarded, Dialogs, Absent
  <1>6. CASE Close
    <2>1. dialogs # <<>>
      BY <1>6 DEF Close, Ask, NewPassword, Dismiss, WrongPassword, NoPasswordSet, ThenInfo,
         Erased, TouchText, Invitation, NoWallet, Sign, Topmost
    <2>2. \/ dialogs' = Pop \/ dialogs' = Replace("ask")
          \/ dialogs' = Replace("newPassword") \/ dialogs' = Replace("notice")
          \/ "proposals" \in Buttons /\ dialogs' = Replace("question")
      BY <1>2, <1>6 DEF Absent, Close, Ask, NewPassword, Dismiss, WrongPassword, NoPasswordSet,
         ThenInfo, Erased, TouchText, Invitation, NoWallet, Sign, Topmost
    <2> QED
      BY <1>3, <1>4, <2>1, <2>2 DEF Dialogs, Absent
  <1>7. CASE Dispatch
    BY <1>3, <1>4, <1>7 DEF Dispatch, ConnectionChanged, AnswerIgnored, ErrorAnswer,
       TextAnswer, SeedAnswer, PasswordSet, EraseDone, ChangeRejected, Signing, Dialogs, Absent
  <1>8. CASE Execute \/ Announce
    BY <1>4, <1>8 DEF Execute, Announce
  <1> QED
    BY <1>5, <1>6, <1>7, <1>8 DEF Next

LEMMA NextOne == ASSUME IInv, Next PROVE OneInv'
  <1> USE DEF IInv
  <1>1. CASE Click
    <2>1. CASE Led \/ Seed \/ Erase
      BY <2>1, PostOne DEF Led, Seed, Erase, Tags
    <2>2. CASE SetPassword \/ CheckProposals
      BY <2>2, KeepOne DEF SetPassword, CheckProposals
    <2>3. ~Join
      BY DEF Join, Clickable, Guarded
    <2> QED
      BY <1>1, <2>1, <2>2, <2>3 DEF Click
  <1>2. CASE Close
    <2>1. dialogs # <<>> => Head(dialogs) \notin Absent
      BY IndexTypes, EmptySeq DEF HandlersInv, TypeOK
    <2>2. ASSUME NEW text \in MaybePassword, Ask(text)
          PROVE  OneInv'
      BY <2>1, <2>2, PostOne DEF Ask, Topmost, Absent, GetInfo, Tags
    <2>3. ASSUME NEW text \in Passwords, NewPassword(text)
          PROVE  OneInv'
      BY <2>3, PostOne DEF NewPassword, Tags
    <2>4. CASE Dismiss \/ WrongPassword \/ NoPasswordSet \/ Erased \/ TouchText \/ NoWallet
      BY <2>4, KeepOne
         DEF Dismiss, WrongPassword, NoPasswordSet, Erased, TouchText, NoWallet
    <2>5. CASE ThenInfo
      BY <2>5, PostOne DEF ThenInfo, GetInfo, Tags
    <2>6. CASE Sign
      <3>1. "proposals" \in Buttons
        BY <2>1, <2>6 DEF Sign, Topmost, Absent
      <3> QED
        BY <2>6, <3>1, PostOne DEF Sign, Tags
    <2>7. ~Invitation
      BY <2>1 DEF Invitation, Topmost, Absent
    <2> QED
      BY <1>2, <2>2, <2>3, <2>4, <2>5, <2>6, <2>7 DEF Close
  <1>3. CASE Dispatch
    <2>1. CASE ConnectionChanged
      BY <2>1, DeliverOther DEF ConnectionChanged
    <2>2. CASE Signing
      BY <2>2, DeliverOther DEF Signing
    <2>3. CASE \E tags, shapes : Answer(tags, shapes)
      BY <2>3, DeliverAnswer
    <2>4. ConnectionChanged \/ Signing \/ \E tags, shapes : Answer(tags, shapes)
      BY <1>3 DEF Dispatch, AnswerIgnored, ErrorAnswer, TextAnswer, SeedAnswer, PasswordSet,
         EraseDone, ChangeRejected
    <2> QED
      BY <2>1, <2>2, <2>3, <2>4
  <1>4. CASE Execute \/ Announce
    BY <1>4, ExecuteOne, AnnounceOne
  <1> QED
    BY <1>1, <1>2, <1>3, <1>4 DEF Next

LEMMA NextInv == IInv /\ [Next]_vars => IInv'
  <1> SUFFICES ASSUME IInv, [Next]_vars PROVE IInv'
    OBVIOUS
  <1>1. Guarded' /\ TypeOK'
    BY NextTypes DEF IInv, Guarded
  <1>2. CASE Next
    BY <1>1, <1>2, NextHandlers, NextOne DEF IInv
  <1>3. CASE UNCHANGED vars
    <2>1. HandlersInv'
      BY <1>3 DEF IInv, HandlersInv, vars
    <2>2. OneInv'
      BY <1>3, KeepOne DEF IInv, vars
    <2> QED
      BY <1>1, <2>1, <2>2 DEF IInv
  <1> QED
    BY <1>2, <1>3

LEMMA Invariance == Spec /\ Guarded => []IInv
  BY InitInv, NextInv, PTL DEF Spec, SafeSpec

\* With "join" left out, and no device at the start, the window never has two
\* commands under way ("the UI should only post one command into the queue"),
\* however the dialogs nest, whatever goes wrong and whether or not it checks
\* for proposals.
THEOREM OneCommand == Spec /\ Guarded => []SingleCommand
  <1>1. IInv => SingleCommand
    BY DEF IInv, OneInv
  <1> QED
    BY <1>1, Invariance, PTL

\* Without "proposals" besides, the flag is set exactly while a command is
\* under way: no command is refused for nothing.
THEOREM FlagIsExact == Spec /\ Plain => []FlagMeansCommand
  <1>1. Plain => [](IInv => FlagMeansCommand)
    <2>1. Plain /\ IInv => FlagMeansCommand
      BY DEF Plain, IInv, OneInv, FlagInv
    <2>2. Plain => Plain'
      BY DEF Plain, Guarded
    <2> QED
      BY <2>1, <2>2, PTL
  <1>2. Plain => Guarded
    BY DEF Plain
  <1> QED
    BY <1>1, <1>2, Invariance, PTL
-----------------------------------------------------------------------------
(***************************************************************************)
(* Dialogs, signals and commands.  A connection is announced only while    *)
(* there is room; every other step turns one of them into one other, but   *)
(* for the buttons, which need a window without dialogs.                   *)
(***************************************************************************)
\* Behind a flag that is set there is one command more than was announced.
RoomInv == /\ Len(events) + Len(queue) <= MaxDialogs + 1
           /\ ~processComnand => Len(events) + Len(queue) <= MaxDialogs

NestingInv == RoomInv /\ BoundedNesting

LEMMA InitNesting == Init /\ Guarded => NestingInv
  <1> SUFFICES ASSUME Init, Guarded PROVE NestingInv
    OBVIOUS
  <1>1. Len(dialogs) = 0 /\ Len(events) = 0 /\ Len(queue) = 0
    BY EmptySeq DEF Init, Guarded
  <1> QED
    BY <1>1, SessionAssumption DEF NestingInv, RoomInv, BoundedNesting

\* The lengths of what a step makes of the stack of dialogs.
LEMMA StackLengths ==
    ASSUME TypeOK, NEW d \in Dialogs
    PROVE  /\ Len(Push(d)) = Len(dialogs) + 1
           /\ dialogs # <<>> => /\ Len(dialogs) >= 1
                                /\ Len(Pop) = Len(dialogs) - 1
                                /\ Len(Replace(d)) = Len(dialogs)
  <1>1. <<d>> \in Seq(Dialogs) /\ Len(<<d>>) = 1
    OBVIOUS
  <1>2. dialogs # <<>> => /\ Pop \in Seq(Dialogs)
                          /\ Len(Pop) = Len(dialogs) - 1
                          /\ Len(dialogs) >= 1
    BY HeadTailProperties, EmptySeq, IndexTypes DEF TypeOK, Pop
  <1>3. \A rest \in Seq(Dialogs) : Len(<<d>> \o rest) = 1 + Len(rest)
    BY <1>1, ConcatProperties
  <1>4. dialogs \in Seq(Dialogs) /\ Len(dialogs) \in Nat
    BY IndexTypes DEF TypeOK
  <1> QED
    BY <1>2, <1>3, <1>4 DEF Push, Replace

\* A command is posted only behind a flag that is not set.
LEMMA PostLengths ==
    ASSUME TypeOK, OneInv, NEW c \in Commands, Wrapper(processComnand, c)
    PROVE  \/ UNCHANGED <<processComnand, queue>>
           \/ /\ ~processComnand /\ processComnand'
              /\ Len(queue) = 0 /\ Len(queue') = 1
  <1>1. CASE processComnand
    BY <1>1 DEF Wrapper, TypeOK
  <1>2. CASE ~processComnand
    <2>1. queue = <<>> /\ Len(queue) = 0
      BY <1>2, EmptySeq DEF OneInv, FlagInv
    <2>2. processComnand' /\ queue' = Append(queue, c)
      BY <1>2 DEF Wrapper
    <2>3. Len(queue') = 1
      BY <2>1, <2>2, AppendProperties DEF TypeOK
    <2> QED
      BY <1>2, <2>1, <2>2, <2>3
  <1> QED
    BY <1>1, <1>2

\* The command that is executed is the only one; it emits at most one signal.
LEMMA ExecuteLengths ==
    ASSUME TypeOK, OneInv, Execute
    PROVE  /\ Len(queue) = 1 /\ Len(queue') = 0
           /\ Len(events') \in Nat /\ Len(events') <= Len(events) + 1
  <1>1. Len(queue) = 1 /\ Len(queue') = 0
    BY ExecuteEvents, EmptySeq
  <1>2. PICK s \in Seq(Events) : Len(s) <= 1 /\ events' = events \o s
    <2>1. PICK s \in Seq(Events), shape \in Shapes :
             /\ events' = events \o s
             /\ \/ s = <<Response(queue[1].tag, shape)>>
                \/ Len(s) <= 1
      BY ExecuteEvents
    <2>2. Len(s) <= 1
      BY <2>1
    <2> QED
      BY <2>1, <2>2
  <1>3. Len(events') = Len(events) + Len(s) /\ Len(events) \in Nat /\ Len(s) \in Nat
    BY <1>2, ConcatProperties, LenProperties DEF TypeOK
  <1> QED
    BY <1>1, <1>2, <1>3

\* It is posted by a button, or in the place of a dialog.
LEMMA PostNesting ==
    ASSUME IInv, NestingInv, NEW c \in Commands, Wrapper(processComnand, c), UNCHANGED events,
           Len(dialogs') \in Nat,
           \/ Len(dialogs) = 0 /\ Len(dialogs') = 0
           \/ Len(dialogs') = Len(dialogs) - 1
    PROVE  NestingInv'
  <1>0. /\ Len(dialogs) \in Nat /\ Len(events) \in Nat /\ Len(queue) \in Nat
        /\ MaxDialogs \in Nat
    BY SessionAssumption, IndexTypes DEF IInv
  <1>1. CASE UNCHANGED <<processComnand, queue>>
    BY <1>0, <1>1 DEF NestingInv, RoomInv, BoundedNesting
  <1>2. CASE /\ ~processComnand /\ processComnand'
             /\ Len(queue) = 0 /\ Len(queue') = 1
    <2>1. Len(events) <= MaxDialogs
      BY <1>0, <1>2 DEF NestingInv, RoomInv
    <2>2. RoomInv'
      BY <1>0, <1>2, <2>1 DEF RoomInv
    <2>3. BoundedNesting'
      BY <1>0, <1>2, <2>1 DEF NestingInv, BoundedNesting
    <2> QED
      BY <2>2, <2>3 DEF NestingInv
  <1> QED
    BY <1>1, <1>2, PostLengths DEF IInv

LEMMA NextNesting == ASSUME IInv, NestingInv, Next PROVE NestingInv'
  <1> USE DEF IInv
  <1>0. /\ Len(dialogs) \in Nat /\ Len(events) \in Nat /\ Len(queue) \in Nat
        /\ MaxDialogs \in Nat
        /\ Len(queue) <= 1
        /\ ~processComnand => Len(queue) = 0
    BY SessionAssumption, IndexTypes, EmptySeq DEF OneInv, SingleCommand, FlagInv
  <1>1. CASE Click
    <2>1. Len(dialogs) = 0
      BY <1>1, EmptySeq DEF Click, Led, Seed, Erase, SetPassword, Join, CheckProposals, Clickable
    <2>2. CASE Led \/ Seed \/ Erase
      <3>1. PICK tag \in Tags : Wrapper(processComnand, Command(tag, sessionPassword, NoPassword))
        BY <2>2 DEF Led, Seed, Erase, Tags
      <3>2. Command(tag, sessionPassword, NoPassword) \in Commands
        BY CommandTypes DEF TypeOK, MaybePassword
      <3>3. UNCHANGED <<dialogs, events>>
        BY <2>2 DEF Led, Seed, Erase
      <3> QED
        BY <1>0, <2>1, <3>1, <3>2, <3>3, PostNesting
    <2>3. CASE SetPassword \/ CheckProposals
      <3>1. Len(dialogs') = 0 \/ Len(dialogs') = 1
        <4>1. dialogs' = dialogs \/ \E d \in Dialogs : dialogs' = Push(d)
          BY <2>3 DEF SetPassword, CheckProposals, Dialogs
        <4>2. ASSUME NEW d \in Dialogs, dialogs' = Push(d)
              PROVE  Len(dialogs') = 1
          <5>1. Len(Push(d)) = Len(dialogs) + 1
            BY StackLengths
          <5> QED
            BY <2>1, <4>2, <5>1
        <4>3. ASSUME dialogs' = dialogs
              PROVE  Len(dialogs') = 0
          BY <2>1, <4>3
        <4> QED
          BY <4>1, <4>2, <4>3
      <3>2. UNCHANGED <<processComnand, events, queue>>
        BY <2>3 DEF SetPassword, CheckProposals
      <3>3. RoomInv' /\ Len(events) + Len(queue) <= MaxDialogs + 1
        BY <3>2 DEF NestingInv, RoomInv
      <3>4. CASE Len(dialogs') = 0
        BY <1>0, <3>2, <3>3, <3>4 DEF NestingInv, BoundedNesting
      <3>5. CASE Len(dialogs') = 1
        BY <1>0, <3>2, <3>3, <3>5 DEF NestingInv, BoundedNesting
      <3> QED
        BY <3>1, <3>4, <3>5
    <2>4. ~Join
      BY DEF Join, Clickable, Guarded
    <2> QED
      BY <1>1, <2>2, <2>3, <2>4 DEF Click
  <1>2. CASE Close
    <2>1. /\ dialogs # <<>> /\ UNCHANGED events
          /\ Head(dialogs) \notin Absent
      <3>1. dialogs # <<>> /\ UNCHANGED events
        BY <1>2 DEF Close, Ask, NewPassword, Dismiss, WrongPassword, NoPasswordSet, ThenInfo,
           Erased, TouchText, Invitation, NoWallet, Sign, Topmost
      <3> QED
        BY <3>1, IndexTypes, EmptySeq DEF HandlersInv, TypeOK
    <2>2. CASE Dismiss \/ WrongPassword \/ NoPasswordSet \/ Erased \/ TouchText \/ NoWallet
      <3>1. /\ UNCHANGED <<processComnand, queue>>
            /\ dialogs' = Pop \/ \E d \in Dialogs : dialogs' = Replace(d)
        BY <2>2 DEF Dismiss, WrongPassword, NoPasswordSet, Erased, TouchText, NoWallet, Dialogs
      <3>2. Len(dialogs') <= Len(dialogs) /\ Len(dialogs') \in Nat
        BY <1>0, <2>1, <3>1, StackLengths DEF Dialogs
      <3> QED
        BY <1>0, <2>1, <3>1, <3>2 DEF NestingInv, RoomInv, BoundedNesting
    <2>3. CASE \/ \E text \in MaybePassword : Ask(text)
               \/ \E text \in Passwords : NewPassword(text)
               \/ ThenInfo \/ Sign
      <3>1. /\ dialogs' = Pop
            /\ \E tag \in Tags, key \in MaybePassword, new \in MaybePassword :
                 Wrapper(processComnand, Command(tag, key, new))
        <4>0. NoPassword \in MaybePassword /\ Passwords \subseteq MaybePassword
          BY DEF MaybePassword
        <4>1. ASSUME NEW text \in MaybePassword, Ask(text)
              PROVE  GetInfo(IF text = NoPassword THEN sessionPassword ELSE text)
          BY <2>1, <4>1 DEF Ask, Topmost, Absent
        <4> QED
          BY <2>3, <4>0, <4>1 DEF Ask, NewPassword, ThenInfo, Sign, GetInfo, TypeOK, Tags
      <3>2. \E c \in Commands : Wrapper(processComnand, c)
        BY <3>1, CommandTypes
      <3>3. Len(dialogs) >= 1 /\ Len(dialogs') = Len(dialogs) - 1
        BY <2>1, <3>1, StackLengths DEF Dialogs
      <3> QED
        BY <1>0, <2>1, <3>2, <3>3, PostNesting
    <2>4. ~Invitation
      BY <2>1 DEF Invitation, Topmost, Absent
    <2> QED
      BY <1>2, <2>2, <2>3, <2>4 DEF Close
  <1>3. CASE Dispatch
    <2>1. \E types : Deliver(types)
      BY <1>3 DEF Dispatch, ConnectionChanged, AnswerIgnored, ErrorAnswer, TextAnswer,
         SeedAnswer, PasswordSet, EraseDone, ChangeRejected, Signing, Answer
    <2>2. Len(events') = Len(events) - 1
      BY <2>1, DeliverIndex
    <2>3. dialogs' = dialogs \/ \E d \in Dialogs : dialogs' = Push(d)
      BY <1>3 DEF Dispatch, ConnectionChanged, AnswerIgnored, ErrorAnswer, TextAnswer,
         SeedAnswer, PasswordSet, EraseDone, ChangeRejected, Signing, Dialogs
    <2>4. Len(dialogs') <= Len(dialogs) + 1 /\ Len(dialogs') \in Nat
      BY <1>0, <2>3, StackLengths DEF Dialogs
    <2>5. queue' = queue /\ (processComnand' = processComnand \/ processComnand' = FALSE)
      BY <1>3 DEF Dispatch, ConnectionChanged, AnswerIgnored, ErrorAnswer, TextAnswer,
         SeedAnswer, PasswordSet, EraseDone, ChangeRejected, Signing, Answer
    <2> QED
      BY <1>0, <2>2, <2>4, <2>5 DEF NestingInv, RoomInv, BoundedNesting
  <1>4. CASE Execute
    <2>1. UNCHANGED <<dialogs, processComnand>>
      BY <1>4 DEF Execute
    <2>2. /\ Len(queue) = 1 /\ Len(queue') = 0
          /\ Len(events') \in Nat /\ Len(events') <= Len(events) + 1
      BY <1>4, ExecuteLengths
    <2> QED
      BY <1>0, <2>1, <2>2 DEF NestingInv, RoomInv, BoundedNesting
  <1>5. CASE Announce
    <2>1. PICK e \in Events : events' = Append(events, e)
      BY <1>5 DEF Announce, Events, Links
    <2>2. Len(events') = Len(events) + 1
      BY <2>1, AppendProperties DEF TypeOK
    <2>3. Len(dialogs) + Len(events) < MaxDialogs /\ UNCHANGED <<processComnand, dialogs, queue>>
      BY <1>5 DEF Announce
    <2> QED
      BY <1>0, <2>2, <2>3 DEF NestingInv, RoomInv, BoundedNesting
  <1> QED
    BY <1>1, <1>2, <1>3, <1>4, <1>5 DEF Next

\* The dialogs of that window, with the proposals or without, do not nest
\* deeper than connections are announced, whatever the device answers
\* (QMessageBox and QInputDialog in lines 152-693).
THEOREM NestingIsBounded == Spec /\ Guarded => []BoundedNesting
  <1>1. Init /\ Guarded => NestingInv
    BY InitNesting
  <1>2. IInv /\ NestingInv /\ [Next]_vars => NestingInv'
    <2>1. ASSUME NestingInv, UNCHANGED vars PROVE NestingInv'
      BY <2>1 DEF NestingInv, RoomInv, BoundedNesting, vars
    <2> QED
      BY <2>1, NextNesting
  <1>3. NestingInv => BoundedNesting
    BY DEF NestingInv
  <1> QED
    BY <1>1, <1>2, <1>3, Invariance, PTL DEF Spec, SafeSpec
-----------------------------------------------------------------------------
(***************************************************************************)
(* The copy of the session password.  It is right while its change is in   *)
(* the queue, since nothing is encrypted with another password; while the  *)
(* rejection is on its way, since no second change is; and while the text  *)
(* of the rejection is read, since what nests on top of it cannot get to   *)
(* setPasswordClicked.                                                     *)
(***************************************************************************)
Honest == Guarded /\ "reset" \notin Faults

Rejections == {"touch", "text"}
TextDialogs == {"textPassword", "textErase"}

\* The dialogs that lead to a new password.
Setters == {"newPassword", "noPasswordSet"}

ResponseDue(tags, shapes) == \E i \in DOMAIN events : IsResponse(events[i], tags, shapes)
Harmless == during \in {NoPassword, devicePassword}

CommandCopy ==
    \A i \in 1..Len(queue) : queue[i].tag \in Changes => during \in {NoPassword, queue[i].key}

AnswerCopy ==
    ResponseDue(Changes, Rejections) => Harmless /\ devicePassword # NoPassword

\* Nothing is under way that could change the password of the device.
Undisturbed == /\ Harmless /\ devicePassword # NoPassword
               /\ \A i \in 1..Len(queue) : queue[i].tag \notin Changes
               /\ ~ResponseDue(Changes, Rejections)
               /\ ~ResponseDue(Tags, {"error101"})

HasText == \E i \in 1..Len(dialogs) : dialogs[i] \in TextDialogs

StackInv == \A i, j \in 1..Len(dialogs) :
               j < i /\ dialogs[i] \in TextDialogs => dialogs[j] \notin Setters

TextInv == StackInv /\ (HasText => Undisturbed)

RestoreInv == CommandCopy /\ AnswerCopy /\ TextInv

LEMMA InitRestore == Init /\ Guarded => RestoreInv
  <1> SUFFICES ASSUME Init, Guarded PROVE RestoreInv
    OBVIOUS
  <1>1. /\ DOMAIN events = {} /\ 1..Len(queue) = {} /\ 1..Len(dialogs) = {}
    BY EmptySeq DEF Init, Guarded
  <1> QED
    BY <1>1 DEF RestoreInv, CommandCopy, AnswerCopy, TextInv, StackInv, HasText, ResponseDue

\* What becomes of the stack of dialogs.
LEMMA StackIndex ==
    ASSUME TypeOK, NEW d \in Dialogs
    PROVE  /\ Len(dialogs) \in Nat
           /\ Len(Push(d)) = Len(dialogs) + 1
           /\ Push(d)[1] = d
           /\ \A i \in 2..Len(dialogs) + 1 : Push(d)[i] = dialogs[i - 1]
           /\ dialogs # <<>> =>
                /\ Len(dialogs) >= 1 /\ Head(dialogs) = dialogs[1]
                /\ Len(Pop) = Len(dialogs) - 1
                /\ \A i \in 1..Len(dialogs) - 1 : Pop[i] = dialogs[i + 1]
                /\ Len(Replace(d)) = Len(dialogs)
                /\ Replace(d)[1] = d
                /\ \A i \in 2..Len(dialogs) : Replace(d)[i] = dialogs[i]
  <1>1. <<d>> \in Seq(Dialogs) /\ Len(<<d>>) = 1 /\ <<d>>[1] = d
    OBVIOUS
  <1>2. dialogs \in Seq(Dialogs) /\ Len(dialogs) \in Nat
    BY IndexTypes DEF TypeOK
  <1>3. ASSUME NEW rest \in Seq(Dialogs)
        PROVE  /\ Len(<<d>> \o rest) = 1 + Len(rest)
               /\ (<<d>> \o rest)[1] = d
               /\ \A i \in 2..Len(rest) + 1 : (<<d>> \o rest)[i] = rest[i - 1]
    <2>1. /\ Len(<<d>> \o rest) = 1 + Len(rest)
          /\ \A i \in 1..1 + Len(rest) :
               (<<d>> \o rest)[i] = IF i <= 1 THEN <<d>>[i] ELSE rest[i - 1]
      BY <1>1, ConcatProperties
    <2>2. Len(rest) \in Nat
      BY LenProperties
    <2> QED
      BY <1>1, <2>1, <2>2
  <1>4. dialogs # <<>> => /\ Pop \in Seq(Dialogs) /\ Len(Pop) = Len(dialogs) - 1
                          /\ \A i \in 1..Len(dialogs) - 1 : Pop[i] = dialogs[i + 1]
                          /\ Len(dialogs) >= 1 /\ Head(dialogs) = dialogs[1]
    <2>1. dialogs # <<>> => Len(dialogs) >= 1
      BY <1>2, EmptySeq
    <2> QED
      BY <1>2, <2>1, HeadTailProperties DEF Pop
  <1>5. dialogs # <<>> => \A i \in 2..Len(dialogs) : Replace(d)[i] = dialogs[i]
    <2> SUFFICES ASSUME dialogs # <<>>, NEW i \in 2..Len(dialogs)
                 PROVE  Replace(d)[i] = dialogs[i]
      OBVIOUS
    <2>1. Replace(d)[i] = Pop[i - 1]
      BY <1>2, <1>3, <1>4 DEF Replace
    <2> QED
      BY <1>2, <1>4, <2>1
  <1>6. dialogs # <<>> => Len(Replace(d)) = Len(dialogs) /\ Replace(d)[1] = d
    BY <1>2, <1>3, <1>4 DEF Replace
  <1>7. /\ Len(Push(d)) = Len(dialogs) + 1 /\ Push(d)[1] = d
        /\ \A i \in 2..Len(dialogs) + 1 : Push(d)[i] = dialogs[i - 1]
    BY <1>2, <1>3 DEF Push
  <1> QED
    BY <1>2, <1>4, <1>5, <1>6, <1>7

\* A dialog that neither shows a text nor leads to a new password.
LEMMA NeutralDialog ==
    ASSUME TypeOK, StackInv,
           \/ UNCHANGED dialogs
           \/ dialogs # <<>> /\ dialogs' = Pop
           \/ \E d \in Dialogs \ (TextDialogs \cup Setters) :
                dialogs' = Push(d) \/ (dialogs # <<>> /\ dialogs' = Replace(d))
    PROVE  StackInv' /\ (HasText' => HasText)
  <1>1. CASE UNCHANGED dialogs
    BY <1>1 DEF StackInv, HasText
  <1>2. CASE dialogs # <<>> /\ dialogs' = Pop
    <2>0. \E d : d \in Dialogs
      BY DEF Dialogs
    <2>1. /\ Len(dialogs) \in Nat /\ Len(Pop) = Len(dialogs) - 1
          /\ \A i \in 1..Len(dialogs) - 1 : Pop[i] = dialogs[i + 1]
      BY <1>2, <2>0, StackIndex
    <2> QED
      BY <1>2, <2>1 DEF StackInv, HasText
  <1>3. ASSUME NEW d \in Dialogs \ (TextDialogs \cup Setters), dialogs' = Push(d)
        PROVE  StackInv' /\ (HasText' => HasText)
    <2>1. /\ Len(dialogs) \in Nat /\ Len(dialogs') = Len(dialogs) + 1 /\ dialogs'[1] = d
          /\ \A i \in 2..Len(dialogs) + 1 : dialogs'[i] = dialogs[i - 1]
      BY <1>3, StackIndex
    <2>2. \A i \in 1..Len(dialogs') : dialogs'[i] \in TextDialogs \cup Setters
             => i - 1 \in 1..Len(dialogs) /\ dialogs'[i] = dialogs[i - 1]
      BY <2>1
    <2>3. HasText' => HasText
      BY <2>2 DEF HasText
    <2>4. StackInv'
      <3> SUFFICES ASSUME NEW i \in 1..Len(dialogs'), NEW j \in 1..Len(dialogs'), j < i,
                          dialogs'[i] \in TextDialogs, dialogs'[j] \in Setters
                   PROVE  FALSE
        BY DEF StackInv
      <3>1. /\ i - 1 \in 1..Len(dialogs) /\ dialogs[i - 1] \in TextDialogs
            /\ j - 1 \in 1..Len(dialogs) /\ dialogs[j - 1] \in Setters
        BY <2>2
      <3>2. j - 1 < i - 1
        BY <2>1
      <3> QED
        BY <3>1, <3>2 DEF StackInv
    <2> QED
      BY <2>3, <2>4
  <1>4. ASSUME NEW d \in Dialogs \ (TextDialogs \cup Setters), dialogs # <<>>,
               dialogs' = Replace(d)
        PROVE  StackInv' /\ (HasText' => HasText)
    <2>1. /\ Len(dialogs) \in Nat /\ Len(dialogs') = Len(dialogs) /\ dialogs'[1] = d
          /\ \A i \in 2..Len(dialogs) : dialogs'[i] = dialogs[i]
      BY <1>4, StackIndex
    <2>2. \A i \in 1..Len(dialogs') : dialogs'[i] \in TextDialogs \cup Setters
             => i \in 1..Len(dialogs) /\ dialogs'[i] = dialogs[i]
      BY <2>1
    <2> QED
      BY <2>2 DEF StackInv, HasText
  <1> QED
    BY <1>1, <1>2, <1>3, <1>4

\* A dialog that leads to a new password lies below every text.
LEMMA SetterDialog ==
    ASSUME TypeOK, StackInv, NEW d \in Setters,
           \/ ~HasText /\ dialogs' = Push(d)
           \/ dialogs # <<>> /\ Head(dialogs) \in Setters /\ dialogs' \in {Pop, Replace(d)}
    PROVE  StackInv' /\ ~HasText'
  <1>0. d \in Dialogs /\ d \notin TextDialogs
    BY DEF Setters, Dialogs, TextDialogs
  <1>1. CASE ~HasText /\ dialogs' = Push(d)
    <2>1. /\ Len(dialogs) \in Nat /\ Len(dialogs') = Len(dialogs) + 1 /\ dialogs'[1] = d
          /\ \A i \in 2..Len(dialogs) + 1 : dialogs'[i] = dialogs[i - 1]
      BY <1>0, <1>1, StackIndex
    <2>2. \A i \in 1..Len(dialogs') : dialogs'[i] \notin TextDialogs
      <3> SUFFICES ASSUME NEW i \in 2..Len(dialogs) + 1 PROVE dialogs'[i] \notin TextDialogs
        BY <1>0, <2>1
      <3>1. i - 1 \in 1..Len(dialogs)
        BY <2>1
      <3> QED
        BY <1>1, <2>1, <3>1 DEF HasText
    <2> QED
      BY <2>2 DEF StackInv, HasText
  <1>2. CASE dialogs # <<>> /\ Head(dialogs) \in Setters /\ dialogs' \in {Pop, Replace(d)}
    <2>1. /\ Len(dialogs) \in Nat /\ Len(dialogs) >= 1 /\ Head(dialogs) = dialogs[1]
          /\ Len(Pop) = Len(dialogs) - 1
          /\ \A i \in 1..Len(dialogs) - 1 : Pop[i] = dialogs[i + 1]
          /\ Len(Replace(d)) = Len(dialogs) /\ Replace(d)[1] = d
          /\ \A i \in 2..Len(dialogs) : Replace(d)[i] = dialogs[i]
      BY <1>0, <1>2, StackIndex
    <2>2. \A i \in 2..Len(dialogs) : dialogs[i] \notin TextDialogs
      BY <1>2, <2>1 DEF StackInv
    <2>3. \A i \in 1..Len(dialogs') : dialogs'[i] \notin TextDialogs
      BY <1>0, <1>2, <2>1, <2>2
    <2> QED
      BY <2>3 DEF StackInv, HasText
  <1> QED
    BY <1>1, <1>2

\* A text is shown on top of the others.
LEMMA TextDialog ==
    ASSUME TypeOK, StackInv, NEW d \in TextDialogs, dialogs' = Push(d), ~HasText
    PROVE  StackInv'
  <1>1. d \in Dialogs
    BY DEF TextDialogs, Dialogs
  <1>2. /\ Len(dialogs) \in Nat /\ Len(dialogs') = Len(dialogs) + 1
        /\ \A i \in 2..Len(dialogs) + 1 : dialogs'[i] = dialogs[i - 1]
    BY <1>1, StackIndex
  <1>3. \A i \in 2..Len(dialogs') : dialogs'[i] \notin TextDialogs
    <2> SUFFICES ASSUME NEW i \in 2..Len(dialogs') PROVE dialogs'[i] \notin TextDialogs
      OBVIOUS
    <2>1. i - 1 \in 1..Len(dialogs)
      BY <1>2
    <2> QED
      BY <1>2, <2>1 DEF HasText
  <1> QED
    BY <1>2, <1>3 DEF StackInv

\* How the device answers, if it does not erase itself.
LEMMA EffectFacts ==
    ASSUME TypeOK, "reset" \notin Faults, NEW c \in Commands, NEW effect \in Effects(c)
    PROVE  /\ effect.shape \in Rejections =>
                /\ devicePassword # NoPassword
                /\ c.key = devicePassword /\ effect.password = devicePassword
           /\ c.tag \notin Changes => effect.password = devicePassword
           /\ effect.shape = "error101" => devicePassword = NoPassword
  <1> USE DEF Effect, Rejections, Changes
  <1>1. CASE devicePassword = NoPassword
    BY <1>1 DEF Effects
  <1>2. CASE devicePassword # NoPassword /\ c.key # devicePassword
    BY <1>2 DEF Effects
  <1>3. CASE devicePassword # NoPassword /\ c.key = devicePassword
    <2>1. \/ effect = Effect("error", devicePassword)
          \/ effect = Effect("touch", devicePassword) \/ effect = Effect("text", devicePassword)
          \/ c.tag = "password" /\ effect \in {Effect("success", c.new), Effect("cipher", c.new)}
          \/ c.tag = "erase" /\ effect = Effect("success", NoPassword)
          \/ effect = Effect("success", devicePassword)
      <3>1. CASE c.tag = "password"
        BY <1>3, <3>1 DEF Effects
      <3>2. CASE c.tag = "erase"
        BY <1>3, <3>2 DEF Effects
      <3>3. CASE c.tag \notin Changes
        BY <1>3, <3>3 DEF Effects
      <3> QED
        BY <3>1, <3>2, <3>3
    <2> QED
      BY <1>3, <2>1
  <1> QED
    BY <1>1, <1>2, <1>3

\* Behind a flag that is not set nothing is under way.
LEMMA NothingDue ==
    ASSUME OneInv, ~processComnand
    PROVE  queue = <<>> /\ \A tags, shapes : ~ResponseDue(tags, shapes)
  BY DEF OneInv, FlagInv, AnswersDue, ResponseDue, IsResponse

\* The answer that is delivered was the only thing under way.
LEMMA AnswerWasLast ==
    ASSUME TypeOK, OneInv, NEW tags, NEW shapes, Answer(tags, shapes)
    PROVE  /\ queue' = <<>> /\ \A t, h : ~ResponseDue(t, h)'
           /\ ResponseDue(tags, shapes)
  <1>1. ResponseDue(tags, shapes)
    <2>1. Deliver({"response"}) /\ IsResponse(Head(events), tags, shapes)
      BY DEF Answer
    <2>2. Head(events) = events[1] /\ Len(events) \in Nat \ {0} /\ DOMAIN events = 1..Len(events)
      BY <2>1, DeliverIndex, IndexTypes
    <2>3. 1 \in DOMAIN events
      BY <2>2
    <2> QED
      BY <2>1, <2>2, <2>3 DEF ResponseDue
  <1>2. OneInv' /\ ~processComnand'
    BY DeliverAnswer DEF Answer
  <1>3. queue' = <<>> /\ AnswersDue' = {}
    BY <1>2 DEF OneInv, FlagInv
  <1> QED
    BY <1>1, <1>3 DEF AnswersDue, ResponseDue, IsResponse

\* Another signal is delivered or announced.
LEMMA OtherSignal ==
    ASSUME TypeOK,
           \/ UNCHANGED events
           \/ \E types : Deliver(types)
           \/ Announce
    PROVE  \A tags, shapes : ResponseDue(tags, shapes)' => ResponseDue(tags, shapes)
  <1> SUFFICES ASSUME NEW tags, NEW shapes, ResponseDue(tags, shapes)'
               PROVE  ResponseDue(tags, shapes)
    OBVIOUS
  <1>0. PICK i \in DOMAIN events' : IsResponse(events'[i], tags, shapes)
    BY DEF ResponseDue, IsResponse
  <1>1. CASE UNCHANGED events
    BY <1>0, <1>1 DEF ResponseDue
  <1>2. CASE \E types : Deliver(types)
    <2>1. PICK types : Deliver(types)
      BY <1>2
    <2>2. /\ DOMAIN events' = 1..Len(events) - 1 /\ DOMAIN events = 1..Len(events)
          /\ Len(events) \in Nat
          /\ \A k \in 1..Len(events) - 1 : events'[k] = events[k + 1]
      BY <2>1, DeliverIndex, IndexTypes
    <2>3. i + 1 \in DOMAIN events /\ events'[i] = events[i + 1]
      BY <1>0, <2>2
    <2> QED
      BY <1>0, <2>3 DEF ResponseDue
  <1>3. CASE Announce
    <2>1. PICK up \in BOOLEAN : events' = Append(events, [type |-> "link", up |-> up])
      BY <1>3 DEF Announce
    <2>2. [type |-> "link", up |-> up] \in Events
      BY DEF Events, Links
    <2>31. events \in Seq(Events) /\ DOMAIN events = 1..Len(events) /\ Len(events) \in Nat
      BY IndexTypes DEF TypeOK
    <2>32. ASSUME NEW e \in Events
           PROVE  /\ Append(events, e) \in Seq(Events) /\ Len(Append(events, e)) = Len(events) + 1
                  /\ Append(events, e)[Len(events) + 1] = e
                  /\ \A k \in 1..Len(events) : Append(events, e)[k] = events[k]
      BY <2>31, AppendProperties
    <2>33. [type |-> "link", up |-> up].type = "link"
      OBVIOUS
    <2>3. /\ DOMAIN events' = 1..Len(events) + 1 /\ DOMAIN events = 1..Len(events)
          /\ Len(events) \in Nat
          /\ events'[Len(events) + 1].type = "link"
          /\ \A k \in 1..Len(events) : events'[k] = events[k]
      BY <2>1, <2>2, <2>31, <2>32, <2>33, LenProperties
    <2>4. i # Len(events) + 1
      BY <1>0, <2>3 DEF IsResponse
    <2>5. i \in DOMAIN events /\ events'[i] = events[i]
      BY <1>0, <2>3, <2>4
    <2> QED
      BY <1>0, <2>5 DEF ResponseDue
  <1> QED
    BY <1>1, <1>2, <1>3

\* A step that leaves the queue and the device's password alone, delivers no
\* answer to a change, and at most clears the copy.
LEMMA KeepRestore ==
    ASSUME TypeOK, RestoreInv, UNCHANGED <<queue, devicePassword>>,
           during' \in {during, NoPassword},
           \A tags, shapes : ResponseDue(tags, shapes)' => ResponseDue(tags, shapes),
           StackInv', HasText' => HasText
    PROVE  RestoreInv'
  <1>1. Harmless => Harmless'
    BY DEF Harmless
  <1>2. CommandCopy'
    BY DEF RestoreInv, CommandCopy
  <1>3. AnswerCopy'
    BY <1>1 DEF RestoreInv, AnswerCopy
  <1>4. Undisturbed => Undisturbed'
    BY <1>1 DEF Undisturbed
  <1> QED
    BY <1>2, <1>3, <1>4 DEF RestoreInv, TextInv

\* A command that is no change is posted.
LEMMA PostRestore ==
    ASSUME TypeOK, OneInv, RestoreInv,
           NEW tag \in Tags \ Changes, NEW key, NEW new,
           Wrapper(processComnand, Command(tag, key, new)),
           UNCHANGED <<events, during, devicePassword>>,
           StackInv', HasText' => HasText
    PROVE  RestoreInv'
  <1>1. CASE processComnand
    <2>1. UNCHANGED queue /\ \A t, h : ResponseDue(t, h)' => ResponseDue(t, h)
      BY <1>1, OtherSignal DEF Wrapper
    <2> QED
      BY <2>1, KeepRestore
  <1>2. CASE ~processComnand
    <2>1. queue = <<>> /\ \A t, h : ~ResponseDue(t, h)
      BY <1>2, NothingDue
    <2>2. queue' = <<Command(tag, key, new)>>
      BY <1>2, <2>1 DEF Wrapper
    <2>3. \A i \in 1..Len(queue') : queue'[i].tag \notin Changes
      BY <2>2 DEF Command
    <2>4. \A t, h : ~ResponseDue(t, h)'
      BY <2>1, OtherSignal
    <2>5. CommandCopy' /\ AnswerCopy'
      BY <2>3, <2>4 DEF CommandCopy, AnswerCopy
    <2>6. Undisturbed => Undisturbed'
      BY <2>3, <2>4 DEF Undisturbed, Harmless
    <2> QED
      BY <2>5, <2>6 DEF RestoreInv, TextInv
  <1> QED
    BY <1>1, <1>2

\* A change is posted: the copy is what the command is encrypted with.
LEMMA PostChange ==
    ASSUME TypeOK, OneInv, RestoreInv, NEW tag, NEW new,
           Wrapper(processComnand, Command(tag, sessionPassword, new)),
           during' = IF processComnand THEN during ELSE sessionPassword,
           UNCHANGED <<events, devicePassword>>,
           StackInv', ~HasText'
    PROVE  RestoreInv'
  <1>1. CASE processComnand
    <2>1. UNCHANGED <<queue, during>> /\ \A t, h : ResponseDue(t, h)' => ResponseDue(t, h)
      BY <1>1, OtherSignal DEF Wrapper
    <2> QED
      BY <2>1, KeepRestore
  <1>2. CASE ~processComnand
    <2>1. queue = <<>> /\ \A t, h : ~ResponseDue(t, h)
      BY <1>2, NothingDue
    <2>2. queue' = <<Command(tag, sessionPassword, new)>> /\ during' = sessionPassword
      BY <1>2, <2>1 DEF Wrapper
    <2>3. \A t, h : ~ResponseDue(t, h)'
      BY <2>1, OtherSignal
    <2>4. CommandCopy'
      BY <2>2 DEF CommandCopy, Command
    <2> QED
      BY <2>3, <2>4 DEF RestoreInv, AnswerCopy, TextInv
  <1> QED
    BY <1>1, <1>2

LEMMA ClickRestore == ASSUME IInv, RestoreInv, Click PROVE RestoreInv'
  <1> USE DEF IInv
  <1>0. dialogs = <<>> /\ Len(dialogs) = 0
    BY EmptySeq DEF Click, Led, Seed, Erase, SetPassword, Join, CheckProposals, Clickable
  <1>1. StackInv /\ ~HasText
    BY <1>0 DEF StackInv, HasText
  <1>2. ASSUME UNCHANGED dialogs PROVE StackInv' /\ ~HasText'
    BY <1>1, <1>2 DEF StackInv, HasText
  <1>3. CASE Led \/ Seed
    <2>1. \E tag \in Tags \ Changes :
             Wrapper(processComnand, Command(tag, sessionPassword, NoPassword))
      BY <1>3 DEF Led, Seed, Tags, Changes
    <2>2. UNCHANGED <<dialogs, events, during, devicePassword>>
      BY <1>3 DEF Led, Seed
    <2> QED
      BY <1>2, <2>1, <2>2, PostRestore
  <1>4. CASE Erase
    <2>1. /\ Wrapper(processComnand, Command("erase", sessionPassword, NoPassword))
          /\ during' = IF processComnand THEN during ELSE sessionPassword
          /\ UNCHANGED <<dialogs, events, devicePassword>>
      BY <1>4 DEF Erase, Posted
    <2> QED
      BY <1>2, <2>1, PostChange
  <1>5. CASE SetPassword
    <2>1. "newPassword" \in Setters /\ dialogs' = Push("newPassword")
      BY <1>5 DEF SetPassword, Setters
    <2>2. StackInv' /\ ~HasText'
      BY <1>1, <2>1, SetterDialog
    <2>3. UNCHANGED <<events, queue, during, devicePassword>>
      BY <1>5 DEF SetPassword
    <2> QED
      BY <2>2, <2>3, OtherSignal, KeepRestore
  <1>6. CASE CheckProposals
    <2>1. /\ UNCHANGED <<events, queue, during, devicePassword>>
          /\ UNCHANGED dialogs \/ dialogs' = Push("noWallet")
      BY <1>6 DEF CheckProposals
    <2>2. "noWallet" \in Dialogs \ (TextDialogs \cup Setters)
      BY DEF Dialogs, TextDialogs, Setters
    <2>3. StackInv' /\ (HasText' => HasText)
      BY <1>1, <2>1, <2>2, NeutralDialog
    <2> QED
      BY <2>1, <2>3, OtherSignal, KeepRestore
  <1>7. ~Join
    BY DEF Join, Clickable, Guarded
  <1> QED
    BY <1>3, <1>4, <1>5, <1>6, <1>7 DEF Click

LEMMA CloseRestore == ASSUME IInv, RestoreInv, Close PROVE RestoreInv'
  <1> USE DEF IInv
  <1>0. /\ dialogs # <<>> /\ UNCHANGED <<events, devicePassword>>
        /\ Head(dialogs) \notin Absent
    <2>1. dialogs # <<>> /\ UNCHANGED <<events, devicePassword>>
      BY DEF Close, Ask, NewPassword, Dismiss, WrongPassword, NoPasswordSet, ThenInfo,
         Erased, TouchText, Invitation, NoWallet, Sign, Topmost
    <2> QED
      BY <2>1, IndexTypes, EmptySeq DEF HandlersInv, TypeOK
  <1>1. StackInv /\ \A t, h : ResponseDue(t, h)' => ResponseDue(t, h)
    BY <1>0, OtherSignal DEF RestoreInv, TextInv
  <1>2. ASSUME \/ dialogs' = Pop
               \/ \E d \in {"ask", "notice", "question"} : dialogs' = Replace(d)
        PROVE  StackInv' /\ (HasText' => HasText)
    <2>1. {"ask", "notice", "question"} \subseteq Dialogs \ (TextDialogs \cup Setters)
      BY DEF Dialogs, TextDialogs, Setters
    <2> QED
      BY <1>0, <1>1, <1>2, <2>1, NeutralDialog
  <1>3. CASE Dismiss \/ WrongPassword \/ Erased \/ TouchText \/ NoWallet
    <2>1. /\ UNCHANGED queue /\ during' \in {during, NoPassword}
          /\ \/ dialogs' = Pop
             \/ \E d \in {"ask", "notice", "question"} : dialogs' = Replace(d)
      BY <1>3 DEF Dismiss, WrongPassword, Erased, TouchText, NoWallet, RestorePassword
    <2> QED
      BY <1>0, <1>1, <1>2, <2>1, KeepRestore
  <1>4. CASE NoPasswordSet
    <2>1. /\ Head(dialogs) \in Setters /\ dialogs' = Replace("newPassword")
          /\ "newPassword" \in Setters
          /\ UNCHANGED <<queue, during>>
      BY <1>4 DEF NoPasswordSet, Topmost, Setters
    <2>2. StackInv' /\ ~HasText'
      BY <1>0, <1>1, <2>1, SetterDialog
    <2> QED
      BY <1>0, <1>1, <2>1, <2>2, KeepRestore
  <1>5. CASE (\E text \in MaybePassword : Ask(text)) \/ ThenInfo \/ Sign
    <2>1. \E tag \in {"info", "sign"} : \E key :
             Wrapper(processComnand, Command(tag, key, NoPassword))
      <3>1. ASSUME NEW text \in MaybePassword, Ask(text)
            PROVE  GetInfo(IF text = NoPassword THEN sessionPassword ELSE text)
        BY <1>0, <3>1 DEF Ask, Topmost, Absent
      <3> QED
        BY <1>5, <3>1 DEF ThenInfo, Sign, GetInfo
    <2>2. dialogs' = Pop /\ UNCHANGED during
      BY <1>5 DEF Ask, ThenInfo, Sign
    <2>3. {"info", "sign"} \subseteq Tags \ Changes
      BY DEF Tags, Changes
    <2>4. StackInv' /\ (HasText' => HasText)
      BY <1>2, <2>2
    <2> QED
      BY <1>0, <2>1, <2>2, <2>3, <2>4, PostRestore
  <1>6. ASSUME NEW text \in Passwords, NewPassword(text) PROVE RestoreInv'
    <2>1. /\ Head(dialogs) \in Setters /\ dialogs' = Pop
          /\ Wrapper(processComnand, Command("password", sessionPassword, text))
          /\ during' = IF processComnand THEN during ELSE sessionPassword
      BY <1>6 DEF NewPassword, Topmost, Setters, Posted
    <2>2. StackInv' /\ ~HasText'
      BY <1>0, <1>1, <2>1, SetterDialog
    <2> QED
      BY <1>0, <2>1, <2>2, PostChange
  <1>7. ~Invitation
    BY <1>0 DEF Invitation, Topmost, Absent
  <1> QED
    BY <1>3, <1>4, <1>5, <1>6, <1>7 DEF Close

\* An answer clears the queue; what is shown may hide a text of before only if
\* none of the answer's kind can come while a text is read.
LEMMA AnswerRestore ==
    ASSUME IInv, RestoreInv, NEW tags, NEW shapes, Answer(tags, shapes),
           during' \in {during, NoPassword},
           StackInv', HasText' => HasText \/ (Harmless /\ devicePassword # NoPassword)
    PROVE  RestoreInv'
  <1>1. /\ queue' = <<>> /\ \A t, h : ~ResponseDue(t, h)'
        /\ devicePassword' = devicePassword
    BY AnswerWasLast DEF IInv, Answer
  <1>2. \A i \in 1..Len(queue') : FALSE
    BY <1>1
  <1>3. CommandCopy' /\ AnswerCopy'
    BY <1>1, <1>2 DEF CommandCopy, AnswerCopy
  <1>4. HasText' => Harmless /\ devicePassword # NoPassword
    BY DEF RestoreInv, TextInv, Undisturbed
  <1>5. HasText' => Undisturbed'
    BY <1>1, <1>2, <1>4 DEF Undisturbed, Harmless
  <1> QED
    BY <1>3, <1>5 DEF RestoreInv, TextInv

LEMMA DispatchRestore == ASSUME IInv, RestoreInv, Dispatch PROVE RestoreInv'
  <1>1. TypeOK /\ OneInv /\ StackInv
    BY DEF IInv, RestoreInv, TextInv
  <1>2. ASSUME NEW tags, NEW shapes, Answer(tags, shapes)
        PROVE  ResponseDue(tags, shapes)
    BY <1>1, <1>2, AnswerWasLast
  <1>3. {"ask", "notice", "wrongPassword", "thenInfo", "erased"}
           \subseteq Dialogs \ (TextDialogs \cup Setters)
    BY DEF Dialogs, TextDialogs, Setters
  <1>4. ASSUME \/ UNCHANGED dialogs
               \/ \E d \in {"ask", "notice", "wrongPassword", "thenInfo", "erased"} :
                     dialogs' = Push(d)
        PROVE  StackInv' /\ (HasText' => HasText)
    BY <1>1, <1>3, <1>4, NeutralDialog
  <1>5. CASE ConnectionChanged \/ Signing
    <2>1. \E types : Deliver(types)
      BY <1>5 DEF ConnectionChanged, Signing
    <2>2. /\ UNCHANGED <<queue, devicePassword, during>>
          /\ UNCHANGED dialogs \/ dialogs' = Push("ask") \/ dialogs' = Push("notice")
      BY <1>5 DEF ConnectionChanged, Signing
    <2>3. StackInv' /\ (HasText' => HasText)
      BY <1>4, <2>2
    <2>4. \A t, h : ResponseDue(t, h)' => ResponseDue(t, h)
      BY <1>1, <2>1, OtherSignal
    <2> QED
      BY <1>1, <2>2, <2>3, <2>4, KeepRestore
  <1>6. CASE AnswerIgnored \/ SeedAnswer \/ PasswordSet \/ EraseDone \/ ChangeRejected
    <2>1. \E tags, shapes : Answer(tags, shapes)
      BY <1>6 DEF AnswerIgnored, SeedAnswer, PasswordSet, EraseDone, ChangeRejected
    <2>2. /\ during' \in {during, NoPassword}
          /\ \/ UNCHANGED dialogs
             \/ \E d \in {"ask", "notice", "wrongPassword", "thenInfo", "erased"} :
                   dialogs' = Push(d)
      BY <1>6 DEF AnswerIgnored, SeedAnswer, PasswordSet, EraseDone, ChangeRejected,
         RestorePassword
    <2> QED
      BY <1>4, <2>1, <2>2, AnswerRestore
  <1>7. CASE ErrorAnswer
    <2>1. CASE Answer(Tags, {"error101"}) /\ dialogs' = Push("noPasswordSet")
      <3>1. ~HasText /\ "noPasswordSet" \in Setters
        BY <1>2, <2>1 DEF RestoreInv, TextInv, Undisturbed, Setters
      <3>2. StackInv' /\ ~HasText'
        BY <1>1, <2>1, <3>1, SetterDialog
      <3> QED
        BY <1>7, <2>1, <3>2, AnswerRestore DEF ErrorAnswer
    <2>2. CASE \/ Answer(Tags, {"error108"}) /\ dialogs' = Push("wrongPassword")
               \/ Answer(Tags, {"error110", "error"}) /\ dialogs' = Push("notice")
      <3>1. StackInv' /\ (HasText' => HasText)
        BY <1>4, <2>2
      <3> QED
        BY <1>7, <2>2, <3>1, AnswerRestore DEF ErrorAnswer
    <2> QED
      BY <1>7, <2>1, <2>2 DEF ErrorAnswer
  <1>8. CASE TextAnswer
    <2>1. CASE Answer(Tags \ Changes, {"text"}) /\ dialogs' = Push("notice")
      <3>1. StackInv' /\ (HasText' => HasText)
        BY <1>4, <2>1
      <3> QED
        BY <1>8, <2>1, <3>1, AnswerRestore DEF TextAnswer
    <2>2. ASSUME NEW tag \in Changes, NEW d \in TextDialogs,
                 Answer({tag}, {"text"}), dialogs' = Push(d)
          PROVE  RestoreInv'
      <3>1. ResponseDue({tag}, {"text"})
        BY <1>2, <2>2
      <3>2. ResponseDue(Changes, Rejections)
        BY <3>1 DEF ResponseDue, IsResponse, Rejections
      <3>3. Harmless /\ devicePassword # NoPassword /\ ~HasText
        BY <3>2 DEF RestoreInv, AnswerCopy, TextInv, Undisturbed
      <3>4. StackInv'
        BY <1>1, <2>2, <3>3, TextDialog
      <3> QED
        BY <1>8, <2>2, <3>3, <3>4, AnswerRestore DEF TextAnswer
    <2> QED
      BY <1>8, <2>1, <2>2 DEF TextAnswer, Changes, TextDialogs
  <1> QED
    BY <1>5, <1>6, <1>7, <1>8 DEF Dispatch

\* The command that is carried out was the only thing under way; an answer
\* that is then on its way is the answer to it.
LEMMA ExecuteFacts ==
    ASSUME TypeOK, OneInv, Execute
    PROVE  \E c, shape, r :
             /\ c \in Commands /\ Len(queue) = 1 /\ c = queue[1] /\ queue' = <<>>
             /\ r = Response(c.tag, shape)
             /\ \/ \E effect \in Effects(c) :
                     shape = effect.shape /\ devicePassword' = effect.password
                \/ shape = "none" /\ UNCHANGED devicePassword
             /\ \A tags, shapes :
                  ResponseDue(tags, shapes)' => IsResponse(r, tags, shapes)
  <1> DEFINE c == queue[1]
  <1>1. Len(queue) = 1 /\ c \in Commands /\ queue' = <<>> /\ AnswersDue = {}
    BY ExecuteEvents
  <1>2. PICK s \in Seq(Events), shape \in Shapes :
           /\ events' = events \o s
           /\ \/ \E effect \in Effects(c) :
                   shape = effect.shape /\ devicePassword' = effect.password
              \/ shape = "none" /\ UNCHANGED devicePassword
           /\ \/ c.tag # "sign" /\ s = <<Response(c.tag, shape)>>
              \/ /\ c.tag = "sign" /\ Len(s) <= 1
                 /\ \A i \in 1..Len(s) : s[i].type # "response"
    BY ExecuteEvents
  <1> DEFINE r == Response(c.tag, shape)
  <1>3. \A i \in 1..Len(s) : s[i] = r \/ s[i].type # "response"
    BY <1>2
  <1>4. ASSUME NEW tags, NEW shapes, ResponseDue(tags, shapes)'
        PROVE  IsResponse(r, tags, shapes)
    <2>1. PICK i \in DOMAIN events' : IsResponse(events'[i], tags, shapes)
      BY <1>4 DEF ResponseDue, IsResponse
    <2>2. /\ DOMAIN events' = 1..Len(events) + Len(s)
          /\ DOMAIN events = 1..Len(events)
          /\ Len(events) \in Nat /\ Len(s) \in Nat
          /\ \A k \in 1..Len(events) + Len(s) :
               events'[k] = IF k <= Len(events) THEN events[k] ELSE s[k - Len(events)]
      BY <1>2, ConcatProperties, LenProperties, IndexTypes DEF TypeOK
    <2>3. CASE i <= Len(events)
      <3>1. i \in DOMAIN events /\ events'[i] = events[i]
        BY <2>2, <2>3
      <3> QED
        BY <1>1, <2>1, <3>1 DEF AnswersDue, IsResponse
    <2>4. CASE i > Len(events)
      <3>1. i - Len(events) \in 1..Len(s) /\ events'[i] = s[i - Len(events)]
        BY <2>2, <2>4
      <3>2. events'[i] = r \/ events'[i].type # "response"
        BY <1>3, <3>1
      <3> QED
        BY <2>1, <3>2 DEF IsResponse
    <2> QED
      BY <2>2, <2>3, <2>4
  <1> HIDE DEF c, r
  <1>5. c = queue[1] /\ r = Response(c.tag, shape)
    BY DEF c, r
  <1> QED
    BY <1>1, <1>2, <1>4, <1>5

LEMMA ExecuteRestore ==
    ASSUME Honest, IInv, RestoreInv, Execute PROVE RestoreInv'
  <1>1. PICK c, shape, r :
             /\ c \in Commands /\ Len(queue) = 1 /\ c = queue[1] /\ queue' = <<>>
             /\ r = Response(c.tag, shape)
             /\ \/ \E effect \in Effects(c) :
                     shape = effect.shape /\ devicePassword' = effect.password
                \/ shape = "none" /\ UNCHANGED devicePassword
             /\ \A tags, shapes :
                  ResponseDue(tags, shapes)' => IsResponse(r, tags, shapes)
    BY ExecuteFacts DEF IInv
  <1>2. /\ r.type = "response" /\ r.tag = c.tag /\ r.shape = shape
    BY <1>1 DEF Response
  <1>3. UNCHANGED <<during, dialogs>>
    BY DEF Execute
  <1>4. /\ shape \in Rejections => /\ devicePassword # NoPassword
                                   /\ c.key = devicePassword /\ devicePassword' = devicePassword
        /\ c.tag \notin Changes => devicePassword' = devicePassword
        /\ shape = "error101" => devicePassword = NoPassword
    <2>1. CASE shape = "none" /\ UNCHANGED devicePassword
      BY <2>1 DEF Rejections
    <2>2. ASSUME NEW effect \in Effects(c), shape = effect.shape,
                 devicePassword' = effect.password
          PROVE  /\ shape \in Rejections => /\ devicePassword # NoPassword
                                            /\ c.key = devicePassword
                                            /\ devicePassword' = devicePassword
                 /\ c.tag \notin Changes => devicePassword' = devicePassword
                 /\ shape = "error101" => devicePassword = NoPassword
      BY <1>1, <2>2, EffectFacts DEF Honest, IInv
    <2> QED
      BY <1>1, <2>1, <2>2
  <1>5. CommandCopy'
    BY <1>1 DEF CommandCopy
  <1>6. AnswerCopy'
    <2> SUFFICES ASSUME ResponseDue(Changes, Rejections)'
                 PROVE  Harmless' /\ devicePassword' # NoPassword
      BY DEF AnswerCopy
    <2>1. c.tag \in Changes /\ shape \in Rejections
      BY <1>1, <1>2 DEF IsResponse
    <2>2. during \in {NoPassword, c.key}
      BY <1>1, <2>1 DEF RestoreInv, CommandCopy
    <2> QED
      BY <1>3, <1>4, <2>1, <2>2 DEF Harmless
  <1>7. StackInv' /\ (HasText' => HasText)
    BY <1>3 DEF RestoreInv, TextInv, StackInv, HasText
  <1>8. Undisturbed => Undisturbed'
    <2> SUFFICES ASSUME Undisturbed PROVE Undisturbed'
      OBVIOUS
    <2>1. c.tag \notin Changes /\ shape # "error101" /\ devicePassword' = devicePassword
      BY <1>1, <1>4 DEF Undisturbed
    <2>2. ~ResponseDue(Changes, Rejections)' /\ ~ResponseDue(Tags, {"error101"})'
      BY <1>1, <1>2, <2>1 DEF IsResponse
    <2> QED
      BY <1>1, <1>3, <2>1, <2>2 DEF Undisturbed, Harmless
  <1> QED
    BY <1>5, <1>6, <1>7, <1>8 DEF RestoreInv, TextInv

LEMMA NextRestore == ASSUME Honest, IInv, RestoreInv, [Next]_vars PROVE RestoreInv'
  <1>1. ASSUME Announce \/ UNCHANGED vars PROVE RestoreInv'
    <2>1. UNCHANGED <<queue, devicePassword, during, dialogs>>
      BY <1>1 DEF Announce, vars
    <2>2. \A t, h : ResponseDue(t, h)' => ResponseDue(t, h)
      BY <1>1, OtherSignal DEF IInv, vars
    <2>3. TypeOK /\ StackInv' /\ (HasText' => HasText)
      BY <2>1 DEF IInv, RestoreInv, TextInv, StackInv, HasText
    <2> QED
      BY <2>1, <2>2, <2>3, KeepRestore
  <1> QED
    BY <1>1, ClickRestore, CloseRestore, DispatchRestore, ExecuteRestore DEF Next

\* A change that the device has rejected is undone to the password that the
\* device has: for a device that does not erase itself, and the window without
\* "join", whether or not proposals are signed meanwhile ("reset password in
\* case of an error", lines 493 and 573).
THEOREM RestoresPassword == Spec /\ Honest => []RestoresRightPassword
  <1>1. Init /\ Guarded => RestoreInv
    BY InitRestore
  <1>2. Honest /\ IInv /\ RestoreInv /\ [Next]_vars => RestoreInv'
    BY NextRestore
  <1>3. IInv /\ RestoreInv => RestoresRightPassword
    <2> SUFFICES ASSUME IInv, RestoreInv PROVE RestoresRightPassword
      OBVIOUS
    <2>1. ASSUME NEW i \in DOMAIN events, IsResponse(events[i], Changes, {"touch", "text"})
          PROVE  during \in {NoPassword, devicePassword}
      BY <2>1 DEF RestoreInv, AnswerCopy, ResponseDue, Rejections, Harmless
    <2>2. ASSUME NEW i \in DOMAIN dialogs, dialogs[i] \in {"textPassword", "textErase"}
          PROVE  during \in {NoPassword, devicePassword}
      <3>1. HasText
        BY <2>2, IndexTypes DEF HasText, TextDialogs, IInv
      <3> QED
        BY <3>1 DEF RestoreInv, TextInv, Undisturbed, Harmless
    <2> QED
      BY <2>1, <2>2 DEF RestoresRightPassword
  <1>4. Honest => Guarded
    BY DEF Honest
  <1>5. Honest => Honest'
    BY DEF Honest, Guarded
  <1> QED
    BY <1>1, <1>2, <1>3, <1>4, <1>5, Invariance, PTL DEF Spec, SafeSpec
-----------------------------------------------------------------------------
(***************************************************************************)
(* Every step that takes a copy, or gives the file up, posts a command.    *)
(***************************************************************************)
\* The copy of the session password and the file of the copay client go only
\* with a command that really is in the queue (lines 340-347 and 419-425):
\* true of every window, also when the flag says nothing.
THEOREM CopyWithCommand == Spec => CopyOnlyWithCommand
  <1>1. ASSUME TypeOK, [Next]_vars,
               (during' # during /\ during' # NoPassword) \/ copayFile' # copayFile
        PROVE  Len(queue') = Len(queue) + 1
    <2>1. PICK tag, new :
             ~processComnand /\ Wrapper(processComnand, Command(tag, sessionPassword, new))
      <3>1. CASE Erase
        BY <1>1, <3>1 DEF Erase, Posted, TypeOK
      <3>2. CASE \E text \in Passwords : NewPassword(text)
        BY <1>1, <3>2 DEF NewPassword, Posted, TypeOK, client
      <3>3. Erase \/ \E text \in Passwords : NewPassword(text)
        BY <1>1 DEF Next, Click, Led, Seed, SetPassword, Join, CheckProposals,
           Close, Ask, Dismiss, WrongPassword, NoPasswordSet, ThenInfo, Erased, TouchText,
           RestorePassword, Invitation, NoWallet, Sign, Dispatch, ConnectionChanged, Answer,
           AnswerIgnored, ErrorAnswer, TextAnswer, SeedAnswer, PasswordSet, EraseDone,
           ChangeRejected, Signing, Execute, Announce, client, vars
      <3> QED
        BY <3>1, <3>2, <3>3
    <2>2. queue' = Append(queue, Command(tag, sessionPassword, new))
      BY <2>1 DEF Wrapper
    <2>3. queue \in Seq(Commands \cup {Command(tag, sessionPassword, new)})
      BY <1>1, SeqMonotonic DEF TypeOK
    <2> QED
      BY <2>2, <2>3, AppendProperties
  <1> QED
    BY <1>1, TypeCorrect, PTL DEF Spec, SafeSpec, CopyOnlyWithCommand
=============================================================================
