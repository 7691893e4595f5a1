------------------------- MODULE WalletClientProofs -------------------------
(***************************************************************************)
(* Proofs about WalletClient for any set of devices.                       *)
(*                                                                         *)
(* MemoryIsSaved is not inductive: what a save writes must be a whole      *)
(* record, which depends on the order of the answers, and a process that   *)
(* has no request key must not meet a file.  FileInv says for each place   *)
(* of the process what copay.dat holds, KeysInv which keys are there while *)
(* commands are under way, JoinInv what is known of the join request.      *)
(*                                                                         *)
(* For a user who waits, Waiting adds that a seeded process has nothing    *)
(* under way, and so that saving begins without a file.                    *)
(***************************************************************************)
EXTENDS WalletClient, TLAPS

Memory == [request |-> request, master |-> master]

\* The request key is asked for, and comes, after a master key.
KeysInv == /\ request # None => master # None
           /\ \A i \in DOMAIN asked : asked[i] = "request" => master # None

\* A process that has not loaded its file yet has nothing and has said nothing.
StartInv == pc = "load" => request = None /\ asked = <<>> /\ told = None

\* At rest the file, if there is one, is what the process holds.
FileInv == /\ pc \in {"idle", "join", "wallets"} /\ file # Absent => file = Memory
           /\ pc = "write" => file = Empty
           /\ pc = "close" => file = Memory
           /\ pc \in {"open", "write", "close"} => request # None

JoinInv == /\ pc = "join" => params = "testnet" /\ request # None
           /\ pc = "wallets" /\ status = 200 => Copayer \in copayers

IInv == TypeOK /\ KeysInv /\ StartInv /\ FileInv /\ JoinInv /\ CopayersOnTestnet

\* A user who waits has one command under way, and none once it is seeded.
Waiting == /\ Len(asked) <= 1
           /\ request # None => asked = <<>>
           /\ pc = "open" => file = Absent
           /\ told = "joined" => request # None /\ Copayer \in copayers

PInv == IInv /\ (patient => Waiting)
-----------------------------------------------------------------------------
LEMMA InitInv == Init => IInv
  <1> SUFFICES ASSUME Init PROVE IInv
    OBVIOUS
  <1>1. <<>> \in Seq({"master", "request"}) /\ Len(<<>>) = 0 /\ DOMAIN <<>> = {}
    OBVIOUS
  <1> QED
    BY <1>1, WalletAssumption DEF Init, IInv, TypeOK, KeysInv, StartInv, FileInv, JoinInv,
       CopayersOnTestnet, Keys, Record, Whole

\* A seeded process holds a record that can be a whole file.
LEMMA SeededMemory ==
  ASSUME TypeOK, KeysInv, request # None
  PROVE  Memory \in Whole /\ request \in Devices /\ master \in Devices
  BY DEF TypeOK, KeysInv, Keys, Memory, Whole

\* An unseeded process at rest has no file.
LEMMA UnseededFile ==
  ASSUME TypeOK, FileInv, pc = "idle", request = None
  PROVE  file = Absent
  <1>1. SUFFICES ASSUME file # Absent PROVE FALSE
    OBVIOUS
  <1>2. file = Memory
    BY <1>1 DEF FileInv
  <1>3. Memory \in Record /\ Memory.request = None
    BY DEF Memory, Record, TypeOK
  <1>4. Memory \notin Whole
    BY <1>3, WalletAssumption DEF Whole
  <1> QED
    BY <1>1, <1>2, <1>3, <1>4, WalletAssumption DEF TypeOK

\* A command joins the queue, and leaves it.
LEMMA Queued ==
  ASSUME asked \in Seq({"master", "request"}), NEW key \in {"master", "request"}
  PROVE  /\ Append(asked, key) \in Seq({"master", "request"})
         /\ Len(Append(asked, key)) = Len(asked) + 1
         /\ \A i \in DOMAIN Append(asked, key) :
               \/ i \in DOMAIN asked /\ Append(asked, key)[i] = asked[i]
               \/ Append(asked, key)[i] = key
  OBVIOUS

LEMMA Served ==
  ASSUME asked \in Seq({"master", "request"}), asked # <<>>
  PROVE  /\ Tail(asked) \in Seq({"master", "request"})
         /\ Len(Tail(asked)) = Len(asked) - 1 /\ Len(asked) \in Nat
         /\ \A i \in DOMAIN Tail(asked) : i + 1 \in DOMAIN asked /\ Tail(asked)[i] = asked[i + 1]
         /\ 1 \in DOMAIN asked /\ Head(asked) = asked[1]
  OBVIOUS
-----------------------------------------------------------------------------
(***************************************************************************)
(* Each action preserves the invariant.                                    *)
(***************************************************************************)
LEMMA StartAndEnd ==
  ASSUME IInv, patient' = patient, Launch \/ LoadLocalData \/ Kill
  PROVE  IInv'
  <1> USE DEF IInv, keyVars, joinVars
  <1>1. CASE Launch
    <2>1. <<>> \in Seq({"master", "request"}) /\ Len(<<>>) = 0 /\ DOMAIN <<>> = {}
      OBVIOUS
    <2> QED
      BY <1>1, <2>1, WalletAssumption
         DEF Launch, TypeOK, Keys, KeysInv, StartInv, FileInv, JoinInv, CopayersOnTestnet
  <1>2. CASE LoadLocalData
    <2>1. CASE file \in {Absent, Empty}
      BY <1>2, <2>1, WalletAssumption
         DEF LoadLocalData, TypeOK, KeysInv, StartInv, FileInv, JoinInv, CopayersOnTestnet
    <2>2. CASE file \notin {Absent, Empty}
      <3>1. /\ file \in Whole
            /\ file = [request |-> file.request, master |-> file.master]
            /\ file.request \in Devices /\ file.master \in Devices
        BY <2>2 DEF TypeOK, Whole
      <3>2. /\ request' = file.request /\ master' = file.master
            /\ pc = "load" /\ pc' \in {"idle", "off"}
            /\ UNCHANGED <<params, asked, file, status, told, copayers>>
        BY <1>2, <2>2 DEF LoadLocalData
      <3> QED
        BY <3>1, <3>2, WalletAssumption
           DEF TypeOK, Keys, KeysInv, StartInv, FileInv, JoinInv, CopayersOnTestnet, Memory
    <2> QED
      BY <2>1, <2>2
  <1>3. CASE Kill
    BY <1>3 DEF Kill, TypeOK, KeysInv, StartInv, FileInv, JoinInv, CopayersOnTestnet
  <1> QED
    BY <1>1, <1>2, <1>3

LEMMA Asking ==
  ASSUME IInv, patient' = patient, JoinCopayWallet \/ KeyRefused
  PROVE  IInv'
  <1> USE DEF IInv, joinVars
  <1>1. /\ pc = "idle"
        /\ UNCHANGED <<pc, params, master, request, file, status, told, copayers>>
        /\ \/ asked' = Append(asked, "master") /\ Len(asked) < MaxAsked
           \/ asked # <<>> /\ asked' = Tail(asked)
    <2>1. Len(asked) \in Nat
      BY DEF TypeOK
    <2>2. CanClick => Len(asked) < MaxAsked
      BY <2>1, WalletAssumption DEF CanClick
    <2> QED
      BY <2>2 DEF JoinCopayWallet, KeyRefused
  <1>2. /\ asked' \in Seq({"master", "request"}) /\ Len(asked') <= MaxAsked
        /\ \A i \in DOMAIN asked' : asked'[i] = "request" => master # None
    <2>1. CASE asked' = Append(asked, "master") /\ Len(asked) < MaxAsked
      <3>1. asked \in Seq({"master", "request"}) /\ Len(asked) \in Nat
        BY DEF TypeOK
      <3> QED
        BY <2>1, <3>1, Queued, WalletAssumption DEF KeysInv
    <2>2. CASE asked # <<>> /\ asked' = Tail(asked)
      <3>1. asked \in Seq({"master", "request"}) /\ Len(asked) <= MaxAsked
        BY DEF TypeOK
      <3> QED
        BY <2>2, <3>1, Served, WalletAssumption DEF KeysInv
    <2> QED
      BY <1>1, <2>1, <2>2
  <1>3. TypeOK' /\ KeysInv'
    BY <1>1, <1>2 DEF TypeOK, KeysInv
  <1> QED
    BY <1>1, <1>3 DEF StartInv, FileInv, JoinInv, CopayersOnTestnet, Memory

LEMMA Seeding ==
  ASSUME IInv, patient' = patient, NEW d \in Devices, MasterKey(d) \/ RequestKey(d)
  PROVE  IInv'
  <1> USE DEF IInv, joinVars
  <1>1. /\ pc = "idle" /\ asked # <<>> /\ asked \in Seq({"master", "request"})
        /\ params' = "testnet" /\ UNCHANGED <<file, status, told, copayers>>
        /\ pc' = IF request' = None THEN "idle" ELSE "open"
    BY DEF MasterKey, RequestKey, Answered, setMasterPubKey, setRequestPubKey, SaveLocalData, TypeOK
  <1>2. d # None /\ d \in Keys
    BY WalletAssumption DEF Keys
  <1>3. CASE MasterKey(d)
    <2>1. master' = d /\ request' = request /\ asked' = Append(Tail(asked), "request")
      BY <1>3 DEF MasterKey, setMasterPubKey
    <2>2. asked' \in Seq({"master", "request"}) /\ Len(asked') <= MaxAsked
      <3>1. /\ Tail(asked) \in Seq({"master", "request"})
            /\ Len(Tail(asked)) = Len(asked) - 1 /\ Len(asked) \in Nat
        BY <1>1, Served
      <3>2. /\ Append(Tail(asked), "request") \in Seq({"master", "request"})
            /\ Len(Append(Tail(asked), "request")) = Len(Tail(asked)) + 1
        BY <3>1
      <3> QED
        BY <2>1, <3>1, <3>2 DEF TypeOK
    <2>3. request' = None => file = Absent
      BY <1>1, <2>1, UnseededFile
    <2> QED
      BY <1>1, <1>2, <2>1, <2>2, <2>3
         DEF TypeOK, KeysInv, StartInv, FileInv, JoinInv, CopayersOnTestnet
  <1>4. CASE RequestKey(d)
    <2>1. request' = d /\ master' = master /\ asked' = Tail(asked) /\ Head(asked) = "request"
      BY <1>4 DEF RequestKey, setRequestPubKey, Answered
    <2>2. /\ asked' \in Seq({"master", "request"}) /\ Len(asked') <= MaxAsked
          /\ master # None
      <3>1. Len(asked) <= MaxAsked
        BY DEF TypeOK
      <3>2. 1 \in DOMAIN asked /\ asked[1] = "request"
        BY <1>1, <2>1, Served
      <3>3. Tail(asked) \in Seq({"master", "request"}) /\ Len(Tail(asked)) = Len(asked) - 1
            /\ Len(asked) \in Nat
        BY <1>1, Served
      <3> QED
        BY <2>1, <3>1, <3>2, <3>3, WalletAssumption DEF KeysInv
    <2> QED
      BY <1>1, <1>2, <2>1, <2>2
         DEF TypeOK, KeysInv, StartInv, FileInv, JoinInv, CopayersOnTestnet
  <1> QED
    BY <1>3, <1>4

LEMMA Saving ==
  ASSUME IInv, patient' = patient, OpenFile \/ CloseFile \/ CloseAgain \/ RemoveLocalData
  PROVE  IInv'
  <1> USE DEF IInv, keyVars, joinVars
  <1>1. CASE OpenFile
    BY <1>1, WalletAssumption DEF OpenFile, TypeOK, KeysInv, StartInv, FileInv, JoinInv,
       CopayersOnTestnet, Whole, Record, Keys
  <1>2. CASE CloseFile
    <2>1. Memory \in Whole
      BY <1>2, SeededMemory DEF CloseFile, FileInv
    <2>2. /\ pc = "write" /\ pc' = "close" /\ file' = Memory
          /\ UNCHANGED <<params, master, request, asked, status, told, copayers>>
      BY <1>2 DEF CloseFile, Memory
    <2> QED
      BY <2>1, <2>2 DEF TypeOK, KeysInv, StartInv, FileInv, JoinInv, CopayersOnTestnet, Memory
  <1>3. CASE CloseAgain
    BY <1>3 DEF CloseAgain, TypeOK, KeysInv, StartInv, FileInv, JoinInv, CopayersOnTestnet, Memory
  <1>4. CASE RemoveLocalData
    BY <1>4, WalletAssumption DEF RemoveLocalData, TypeOK, KeysInv, StartInv, FileInv, JoinInv,
       CopayersOnTestnet, Whole, Record, Keys
  <1> QED
    BY <1>1, <1>2, <1>3, <1>4

LEMMA Joining ==
  ASSUME IInv, patient' = patient, JoinRequest \/ Joined \/ \E c \in Codes : Invitation(c)
  PROVE  IInv'
  <1> USE DEF IInv, keyVars
  <1>1. ASSUME NEW c \in Codes, Invitation(c) PROVE IInv'
    <2>1. /\ pc = "idle" /\ request # None
          /\ pc' \in {"idle", "off", "join"} /\ params' \in {"testnet", "main"}
          /\ pc' = "join" => params' = "testnet"
          /\ status' = 0 /\ told' \in {None, "failed"}
          /\ UNCHANGED <<master, request, asked, file, copayers>>
      BY <1>1 DEF Invitation, IsSeeded, Codes, TypeOK
    <2> QED
      BY <2>1, WalletAssumption
         DEF TypeOK, KeysInv, StartInv, FileInv, JoinInv, CopayersOnTestnet, Memory
  <1>2. CASE JoinRequest
    <2>1. /\ pc = "join" /\ pc' = "wallets" /\ status' \in {0, 200, 400}
          /\ copayers' \in {copayers, copayers \cup {Copayer}}
          /\ status' = 200 => copayers' = copayers \cup {Copayer}
          /\ UNCHANGED <<params, master, request, asked, file, told>>
      BY <1>2 DEF JoinRequest, Reply
    <2>2. request # None /\ params = "testnet"
      BY <2>1 DEF JoinInv
    <2>3. /\ Copayer \in [master : Devices, net : {"testnet", "main"}, request : Devices]
          /\ Copayer.net = "testnet"
      BY <2>2, SeededMemory DEF Copayer
    <2>4. Copayer' = Copayer
      BY <2>1 DEF Copayer
    <2>5. TypeOK'
      BY <2>1, <2>3 DEF TypeOK
    <2>6. KeysInv' /\ StartInv' /\ FileInv'
      BY <2>1 DEF KeysInv, StartInv, FileInv, Memory
    <2>7. JoinInv'
      BY <2>1, <2>4 DEF JoinInv
    <2>8. CopayersOnTestnet'
      BY <2>1, <2>3 DEF CopayersOnTestnet
    <2> QED
      BY <2>5, <2>6, <2>7, <2>8
  <1>3. CASE Joined
    BY <1>3 DEF Joined, TypeOK, KeysInv, StartInv, FileInv, JoinInv, CopayersOnTestnet, Memory
  <1> QED
    BY <1>1, <1>2, <1>3

LEMMA StepInv == IInv /\ [Next]_vars => IInv'
  <1> SUFFICES ASSUME IInv, [Next]_vars PROVE IInv'
    OBVIOUS
  <1>1. CASE UNCHANGED vars
    BY <1>1 DEF vars, keyVars, joinVars, IInv, TypeOK, KeysInv, StartInv, FileInv, JoinInv,
                CopayersOnTestnet, Copayer, Memory
  <1> QED
    BY <1>1, StartAndEnd, Asking, Seeding, Saving, Joining DEF Next, Step

LEMMA Invariance == Spec => []IInv
  BY InitInv, StepInv, PTL DEF Spec
-----------------------------------------------------------------------------
(***************************************************************************)
(* A user who waits.                                                       *)
(***************************************************************************)
LEMMA PatientInit ==
  ASSUME Init
  PROVE  Waiting
  BY WalletAssumption DEF Init, Waiting

\* What an answer meets: one command, an unseeded process and no file.
LEMMA PatientAnswer ==
  ASSUME IInv, Waiting, pc = "idle", asked # <<>>
  PROVE  request = None /\ file = Absent /\ told # "joined" /\ Tail(asked) = <<>>
  <1>1. request = None /\ told # "joined"
    BY DEF PInv, Waiting
  <1>2. file = Absent
    BY <1>1, UnseededFile DEF PInv, IInv
  <1>3. Tail(asked) = <<>>
    <2>1. asked \in Seq({"master", "request"}) /\ Len(asked) <= 1
      BY DEF IInv, TypeOK, Waiting
    <2>2. Tail(asked) \in Seq({"master", "request"}) /\ Len(Tail(asked)) <= 0
      BY <2>1, Served
    <2> QED
      BY <2>2
  <1> QED
    BY <1>1, <1>2, <1>3

LEMMA PatientStep ==
  ASSUME IInv, Waiting, patient, [Next]_vars
  PROVE  Waiting'
  <1> USE DEF keyVars, joinVars
  <1>1. Len(<<>>) = 0
    OBVIOUS
  <1>2. CASE Launch
    BY <1>1, <1>2, WalletAssumption DEF Launch, Waiting
  <1>3. CASE LoadLocalData
    <2>1. pc = "load" /\ asked = <<>> /\ told = None /\ pc' \in {"idle", "off"}
          /\ UNCHANGED <<asked, told>>
      BY <1>3 DEF LoadLocalData, PInv, IInv, StartInv
    <2> QED
      BY <1>1, <2>1, WalletAssumption DEF Waiting
  <1>4. CASE Kill \/ OpenFile \/ CloseFile \/ CloseAgain \/ RemoveLocalData \/ UNCHANGED vars
    <2>1. UNCHANGED <<params, master, request, asked, told, copayers>>
      BY <1>4 DEF Kill, OpenFile, CloseFile, CloseAgain, RemoveLocalData, vars
    <2>2. pc' = "open" => pc = "open" /\ file' = file
      BY <1>4 DEF Kill, OpenFile, CloseFile, CloseAgain, RemoveLocalData, vars
    <2> QED
      BY <2>1, <2>2 DEF PInv, Waiting, Copayer
  <1>5. CASE JoinCopayWallet
    <2>1. /\ request = None /\ asked' = Append(asked, "master") /\ Len(asked) < 1
          /\ pc' = "idle" /\ UNCHANGED <<request, told>>
      BY <1>5 DEF JoinCopayWallet, CanClick, IsSeeded
    <2>2. Len(asked') <= 1
      <3>1. asked \in Seq({"master", "request"}) /\ Len(asked) \in Nat
        BY DEF PInv, IInv, TypeOK
      <3> QED
        BY <2>1, <3>1, Queued
    <2> QED
      BY <2>1, <2>2 DEF PInv, Waiting
  <1>6. ASSUME NEW d \in Devices, MasterKey(d) PROVE Waiting'
    <2>1. /\ pc = "idle" /\ asked # <<>> /\ asked' = Append(Tail(asked), "request")
          /\ request' = request /\ told' = told
          /\ pc' = IF request' = None THEN "idle" ELSE "open"
      BY <1>6 DEF MasterKey, Answered, setMasterPubKey, SaveLocalData
    <2>2. request = None /\ told # "joined" /\ Tail(asked) = <<>>
      BY <2>1, PatientAnswer
    <2>3. Len(Append(<<>>, "request")) <= 1
      OBVIOUS
    <2> QED
      BY <2>1, <2>2, <2>3 DEF Waiting
  <1>7. ASSUME NEW d \in Devices, RequestKey(d) PROVE Waiting'
    <2>1. /\ pc = "idle" /\ asked # <<>> /\ asked' = Tail(asked)
          /\ told' = told /\ file' = file
      BY <1>7 DEF RequestKey, Answered
    <2>2. file = Absent /\ told # "joined" /\ Tail(asked) = <<>>
      BY <2>1, PatientAnswer
    <2>3. asked' = <<>> /\ Len(asked') = 0
      BY <1>1, <2>1, <2>2
    <2> QED
      BY <2>1, <2>2, <2>3 DEF Waiting
  <1>8. CASE KeyRefused
    <2>1. /\ pc = "idle" /\ asked # <<>> /\ asked' = Tail(asked) /\ pc' = pc
          /\ told' = told
      BY <1>8 DEF KeyRefused
    <2>2. told # "joined" /\ Tail(asked) = <<>>
      BY <2>1, PatientAnswer
    <2>3. asked' = <<>> /\ Len(asked') = 0
      BY <1>1, <2>1, <2>2
    <2> QED
      BY <2>1, <2>2, <2>3 DEF Waiting
  <1>9. ASSUME NEW c \in Codes, Invitation(c) PROVE Waiting'
    <2>1. pc' # "open" /\ told' \in {None, "failed"} /\ UNCHANGED <<request, asked>>
      BY <1>9 DEF Invitation
    <2> QED
      BY <2>1, WalletAssumption DEF PInv, Waiting
  <1>10. CASE JoinRequest
    <2>1. /\ UNCHANGED <<params, master, request, asked, told>> /\ pc' # "open"
          /\ copayers \subseteq copayers'
      BY <1>10 DEF JoinRequest
    <2> QED
      BY <2>1 DEF PInv, Waiting, Copayer
  <1>11. CASE Joined
    <2>1. /\ UNCHANGED <<params, master, request, asked, copayers>> /\ pc' # "open"
          /\ pc = "wallets" /\ told' = "joined" => status = 200
      BY <1>11, WalletAssumption DEF Joined
    <2>2. told' = "joined" => Copayer \in copayers /\ request # None
      <3>1. told' = "joined" => Copayer \in copayers
        BY <1>11, <2>1 DEF PInv, IInv, JoinInv, Joined
      <3>2. Copayer \in copayers => request \in Devices
        BY DEF PInv, IInv, TypeOK, Copayer
      <3> QED
        BY <3>1, <3>2, WalletAssumption
    <2> QED
      BY <2>1, <2>2 DEF PInv, Waiting, Copayer
  <1> QED
    BY <1>2, <1>3, <1>4, <1>5, <1>6, <1>7, <1>8, <1>9, <1>10, <1>11 DEF Next, Step

LEMMA PatientInvariance == Spec => []PInv
  <1>1. Init => PInv
    BY InitInv, PatientInit DEF PInv
  <1>2. PInv /\ [Next]_vars => PInv'
    <2> SUFFICES ASSUME PInv, [Next]_vars PROVE PInv'
      OBVIOUS
    <2>1. patient' = patient
      BY DEF Next, vars
    <2>2. IInv'
      BY StepInv DEF PInv
    <2>3. patient => Waiting'
      BY PatientStep DEF PInv
    <2> QED
      BY <2>1, <2>2, <2>3 DEF PInv
  <1> QED
    BY <1>1, <1>2, PTL DEF Spec
-----------------------------------------------------------------------------
(***************************************************************************)
(* The properties.                                                         *)
(***************************************************************************)
\* The types of the client, its file and the service, for any devices.
THEOREM TypeCorrect == Spec => []TypeOK
  <1>1. IInv => TypeOK
    BY DEF IInv
  <1> QED
    BY <1>1, Invariance, PTL

\* Whenever the program waits for the user, a copay.dat that is there holds its
\* keys, however many commands are under way (SaveLocalData and LoadLocalData).
THEOREM RestIsSaved == Spec => []MemoryIsSaved
  <1>1. IInv => MemoryIsSaved
    BY DEF IInv, FileInv, MemoryIsSaved, Memory
  <1> QED
    BY <1>1, Invariance, PTL

\* Nobody is registered under an identity of the main chain.
THEOREM TestnetOnly == Spec => []CopayersOnTestnet
  <1>1. IInv => CopayersOnTestnet
    BY DEF IInv
  <1> QED
    BY <1>1, Invariance, PTL

\* With a user who waits, who is told to have joined is a copayer under its
\* present identity.
THEOREM JoinsAreGenuine == Spec => []JoinedMeansCopayer
  <1>1. PInv => JoinedMeansCopayer
    BY DEF PInv, Waiting, JoinedMeansCopayer
  <1> QED
    BY <1>1, PatientInvariance, PTL

\* With a user who waits, a whole copay.dat is neither truncated nor replaced,
\* only removed: the save that truncates begins without a file.
THEOREM KeysAreSafe == Spec => StoredKeysAreSafe
  <1>1. PInv /\ [Next]_vars
          => [patient /\ file \in Whole => (file' = file \/ file' = Absent)]_vars
    <2> SUFFICES ASSUME PInv, Next, patient, file \in Whole PROVE file' = file \/ file' = Absent
      BY DEF vars
    <2> USE DEF keyVars, joinVars
    <2>1. file # Absent /\ file # Empty
      BY WalletAssumption DEF Whole, Record, Keys
    <2>2. ~OpenFile /\ ~CloseFile
      BY <2>1 DEF PInv, Waiting, IInv, FileInv, OpenFile, CloseFile
    <2> QED
      BY <2>2 DEF Next, Step, Launch, LoadLocalData, Kill, JoinCopayWallet, MasterKey, RequestKey,
         KeyRefused, CloseAgain, RemoveLocalData, Invitation, JoinRequest, Joined
  <1> QED
    BY <1>1, PatientInvariance, PTL DEF Spec, StoredKeysAreSafe
=============================================================================
