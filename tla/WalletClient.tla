---------------------------- MODULE WalletClient ----------------------------
(***************************************************************************)
(* The keys of the Copay client: class BitPayWalletClient of               *)
(* src/src/libbitpay-wallet-client/bpwalletclient.cpp, with its file       *)
(* copay.dat, the global chain parameters it switches and the copayers the *)
(* wallet service knows, over any number of runs of the program.  Its      *)
(* caller is the window of src/src/qt/dbb_gui.cpp: a click on join looks   *)
(* whether the client is seeded and if not posts a command for the master  *)
(* key; the answer to this one posts another for the request key.  Answers *)
(* come later, in the order of the commands, each from whatever device is  *)
(* connected then, and are stored without a further look at the client.    *)
(*                                                                         *)
(* The process can be killed between any two steps.  What is undefined     *)
(* behaviour in the code, the second fclose of a FILE, ends the process or *)
(* has no effect.  A key is represented by the device it comes from.       *)
(***************************************************************************)
EXTENDS Naturals, Sequences

CONSTANTS Devices,
          MaxAsked,  \* bound: commands for a key under way, unless the user waits
          None,      \* no key, nothing said
          Absent,    \* no copay.dat
          Empty      \* copay.dat truncated and not yet written

Keys == Devices \cup {None}
Record == [request : Keys, master : Keys]

\* A copay.dat with both of its records.
Whole == [request : Devices, master : Devices]

ASSUME WalletAssumption == /\ MaxAsked \in Nat \ {0}
                           /\ None \notin Devices \cup {"failed", "joined"}
                           /\ Absent # Empty
                           /\ {Absent, Empty} \cap Record = {}

VARIABLES patient,   \* whether the user waits for the answers before another click
          pc,        \* where the process is, "off" if it does not run
          params,    \* the chain that SelectParams chose last
          master,    \* masterPubKey
          request,   \* requestKey
          asked,     \* the keys that the commands under way ask for, in order
          file,      \* copay.dat
          status,    \* httpStatusCode of the join request
          told,      \* what the window said of the last join
          copayers   \* the wallet service: who has joined

keyVars == <<master, request, asked>>
joinVars == <<status, told>>
vars == <<patient, pc, params, keyVars, file, joinVars, copayers>>
-----------------------------------------------------------------------------
\* GetXPubKey and GetCopayerId are functions of the master key and of the
\* chain; GetCopayerHash adds the request key that signs every request.
CopayerId == [master |-> master, net |-> params]
Copayer == [master |-> master, net |-> params, request |-> request]

\* A code is too short to be split, has no wallet id, no private key, or both.
Codes == {"short", "noWalletId", "noSecret", "good"}

Init == /\ patient \in BOOLEAN
        /\ pc = "off"
        /\ params = "testnet"
        /\ master = None
        /\ request = None
        /\ asked = <<>>
        /\ file = Absent
        /\ status = 0
        /\ told = None
        /\ copayers = {}

IsSeeded == request # None
-----------------------------------------------------------------------------
(***************************************************************************)
(* Start and end of the process.                                           *)
(***************************************************************************)
\* The constructor.
Launch == /\ pc = "off"
          /\ pc' = "load"
          /\ params' = "testnet"
          /\ master' = None
          /\ request' = None
          /\ asked' = <<>>
          /\ status' = 0
          /\ told' = None
          /\ UNCHANGED <<file, copayers>>

\* Mutant of LoadLocalData: the master key is read but not decoded.
BugSkipMaster == /\ pc = "load"
                 /\ \/ /\ file = Absent
                       /\ pc' = "idle"
                       /\ UNCHANGED request
                    \/ /\ file = Empty
                       /\ pc' = "off"
                       /\ UNCHANGED request
                    \/ /\ file \notin {Absent, Empty}
                       /\ request' = file.request
                       /\ pc' \in {"idle", "off"}
                 /\ UNCHANGED <<params, master, asked, file, joinVars, copayers>>

\* Reading a key from an empty file throws out of the constructor of the window.
LoadLocalData == /\ pc = "load"
                 /\ \/ /\ file = Absent
                       /\ pc' = "idle"
                       /\ UNCHANGED <<master, request>>
                    \/ /\ file = Empty
                       /\ pc' = "off"
                       /\ UNCHANGED <<master, request>>
                    \/ /\ file \notin {Absent, Empty}
                       /\ request' = file.request
                       /\ master' = file.master
                       /\ pc' \in {"idle", "off"}
                 /\ UNCHANGED <<params, asked, file, joinVars, copayers>>

Kill == /\ pc # "off"
        /\ pc' = "off"
        /\ UNCHANGED <<params, keyVars, file, joinVars, copayers>>

(***************************************************************************)
(* Seeding.                                                                *)
(***************************************************************************)
\* Another click on join can come.
CanClick == Len(asked) < (IF patient THEN 1 ELSE MaxAsked)

\* Mutant of JoinCopayWallet: it does not look whether the client is seeded.
BugReseed == /\ pc = "idle"
             /\ CanClick
             /\ asked' = Append(asked, "master")
             /\ UNCHANGED <<pc, params, master, request, file, joinVars, copayers>>

\* A click on join.  It makes the window forget that it waits for an answer,
\* so that another one can follow before the client is seeded.
JoinCopayWallet == /\ pc = "idle"
                   /\ ~IsSeeded
                   /\ CanClick
                   /\ asked' = Append(asked, "master")
                   /\ UNCHANGED <<pc, params, master, request, file, joinVars, copayers>>

\* Mutant of SaveLocalData: a client that has no request key is saved too.
BugSaveUnseeded == pc' = "open"

\* SaveLocalData returns at once if there is no request key.
SaveLocalData == pc' = IF request' = None THEN "idle" ELSE "open"

setMasterPubKey(d) == /\ master' = d
                      /\ UNCHANGED request
                      /\ SaveLocalData

setRequestPubKey(d) == /\ request' = d
                       /\ UNCHANGED master
                       /\ SaveLocalData

\* The next answer is to a command for this key.
Answered(key) == pc = "idle" /\ asked # <<>> /\ Head(asked) = key

\* The command for the request key goes to the end of the queue.
MasterKey(d) == /\ Answered("master")
                /\ params' = "testnet"
                /\ setMasterPubKey(d)
                /\ asked' = Append(Tail(asked), "request")
                /\ UNCHANGED <<file, joinVars, copayers>>

RequestKey(d) == /\ Answered("request")
                 /\ params' = "testnet"
                 /\ setRequestPubKey(d)
                 /\ asked' = Tail(asked)
                 /\ UNCHANGED <<file, joinVars, copayers>>

\* An answer without a key.
KeyRefused == /\ pc = "idle"
              /\ asked # <<>>
              /\ asked' = Tail(asked)
              /\ UNCHANGED <<pc, params, master, request, file, joinVars, copayers>>

\* fopen truncates the file; if it fails, fclose gets a null pointer.
OpenFile == /\ pc = "open"
            /\ \/ file' = Empty /\ pc' = "write"
               \/ UNCHANGED file /\ pc' = "off"
            /\ UNCHANGED <<params, keyVars, joinVars, copayers>>

\* Both records fit the buffer of the stream; the destructor of CAutoFile
\* writes them when it closes the stream.
CloseFile == /\ pc = "write"
             /\ file' = [request |-> request, master |-> master]
             /\ pc' = "close"
             /\ UNCHANGED <<params, keyVars, joinVars, copayers>>

CloseAgain == /\ pc = "close"
              /\ pc' \in {"idle", "off"}
              /\ UNCHANGED <<params, keyVars, file, joinVars, copayers>>

\* Erasing the device: the keys in memory stay.
RemoveLocalData == /\ pc = "idle"
                   /\ file' = Absent
                   /\ UNCHANGED <<pc, params, keyVars, joinVars, copayers>>

(***************************************************************************)
(* Joining a wallet.                                                       *)
(***************************************************************************)
\* Mutant of Invitation: the parameters stay switched after a good code.
BugStayOnMain(c) == /\ pc = "idle"
                    /\ IsSeeded
                    /\ status' = 0
                    /\ params' = IF c \in {"noSecret", "good"} THEN "main" ELSE params
                    /\ pc' = CASE c = "short" -> "off"
                               [] c = "good" -> "join"
                               [] OTHER -> "idle"
                    /\ told' = IF c = "good" THEN None ELSE "failed"
                    /\ UNCHANGED <<keyVars, file, copayers>>

\* JoinWallet up to its first request: ParseWalletInvitation throws on a code
\* that is too short, and switches the chain to read the private key.
Invitation(c) == /\ pc = "idle"
                 /\ IsSeeded
                 /\ status' = 0
                 /\ params' = CASE c = "noSecret" -> "main"
                                [] c = "good" -> "testnet"
                                [] OTHER -> params
                 /\ pc' = CASE c = "short" -> "off"
                            [] c = "good" -> "join"
                            [] OTHER -> "idle"
                 /\ told' = IF c = "good" THEN None ELSE "failed"
                 /\ UNCHANGED <<keyVars, file, copayers>>

\* SendRequest: without a reply there is no status code.
Reply(code) == status' \in {0, code}

\* The wallet service registers a copayer, or it does not; one that it has
\* under the same id, not again.
JoinRequest == /\ pc = "join"
               /\ \/ /\ Reply(400)
                     /\ UNCHANGED copayers
                  \/ /\ \A c \in copayers : CopayerId # [master |-> c.master, net |-> c.net]
                     /\ copayers' = copayers \cup {Copayer}
                     /\ Reply(200)
               /\ pc' = "wallets"
               /\ UNCHANGED <<params, keyVars, file, told>>

\* Mutant of Joined: only a refusal counts as a failure.
BugNoStatus == /\ pc = "wallets"
               /\ told' = IF status = 400 THEN "failed" ELSE "joined"
               /\ pc' = "idle"
               /\ UNCHANGED <<params, keyVars, file, status, copayers>>

\* The wallets are then asked for and not looked at.
Joined == /\ pc = "wallets"
          /\ told' = IF status = 200 THEN "joined" ELSE "failed"
          /\ pc' = "idle"
          /\ UNCHANGED <<params, keyVars, file, status, copayers>>
-----------------------------------------------------------------------------
Step == \/ Launch \/ LoadLocalData \/ Kill
        \/ JoinCopayWallet
        \/ \E d \in Devices : MasterKey(d) \/ RequestKey(d)
        \/ KeyRefused \/ OpenFile \/ CloseFile \/ CloseAgain \/ RemoveLocalData
        \/ \E c \in Codes : Invitation(c)
        \/ JoinRequest \/ Joined

Next == Step /\ UNCHANGED patient

Spec == Init /\ [][Next]_vars
-----------------------------------------------------------------------------
(***************************************************************************)
(* Properties.                                                             *)
(***************************************************************************)
\* The types of the client, its file and the service.
TypeOK == /\ patient \in BOOLEAN
          /\ pc \in {"off", "load", "idle", "open", "write", "close", "join", "wallets"}
          /\ params \in {"testnet", "main"}
          /\ master \in Keys /\ request \in Keys
          /\ asked \in Seq({"master", "request"}) /\ Len(asked) <= MaxAsked
          /\ file \in {Absent, Empty} \cup Whole
          /\ status \in {0, 200, 400}
          /\ told \in {None, "failed", "joined"}
          /\ copayers \subseteq [master : Devices, net : {"testnet", "main"}, request : Devices]

\* Whenever the program waits for the user, copay.dat, if there is one, holds
\* the keys the program works with: it can stop here and come back as the same
\* copayer, also while answers of several devices and several clicks replace
\* them one by one (LoadLocalData and SaveLocalData, lines 637-686).
MemoryIsSaved ==
    pc = "idle" /\ file # Absent => file = [request |-> request, master |-> master]

\* Although a bad invitation leaves the main chain selected (line 224), nobody
\* is registered under the identity that belongs to it.
CopayersOnTestnet == \A c \in copayers : c.net = "testnet"

(***************************************************************************)
(* For a user who waits for the answers before a further click.  With two  *)
(* clicks both are false: answers to the second, from the same device or   *)
(* from another, replace the keys of a copayer and truncate the file.      *)
(***************************************************************************)
\* Keys that were stored are lost through RemoveLocalData only: no crash, no
\* failed save, no answer and no later click on join truncates or replaces a
\* whole copay.dat (fopen with "wb" at line 644 would).
StoredKeysAreSafe ==
    [][patient /\ file \in Whole => (file' = file \/ file' = Absent)]_vars

\* Who is told to have joined is a copayer, under the identity that all later
\* requests carry (JoinWallet, lines 232-270, and GetCopayerId, line 193).
JoinedMeansCopayer == patient /\ told = "joined" => Copayer \in copayers
=============================================================================
