# TLA+ models of dbb-app

dbb-app is a desktop program for the Digital Bitbox hardware wallet: a Qt window, a small
HTTP server, a command queue with a worker thread, a USB (HID) link to the device, a client
of the Copay wallet service, and a command line tool. This directory holds TLA+ models of
its concurrent core, of the Copay client, of the encrypted exchange with the device and of
the command line tool, TLC configurations that check them, and TLAPS proofs.

Paths below are those of the repository; `dbb_gui.cpp:30` means line 30 of
`src/src/qt/dbb_gui.cpp`. `PROJECT.json` maps every definition to the lines it models.

## The system

Four threads run in the application (`dbb_app.cpp`):

| thread | code | talks to the others through |
| --- | --- | --- |
| main (Qt) | `dbb_gui.cpp` | `executeCommand`; Qt signals queued to its event loop |
| `cmdThread` | `dbb_app.cpp:131-184` | `cmdQueue`, `cs_queue`, `queueCondVar`, `notified`; callbacks that emit signals |
| `usbCheckThread` | `dbb_app.cpp:187-211` | the global `HID_HANDLE`; the signal `deviceStateHasChanged` |
| `httpThread` | `dbb_app.cpp:94-106, 222` | `executeCommand` |

| component | state | operations | what is hard | what makes it correct |
| --- | --- | --- | --- | --- |
| Command queue (`dbb_app.cpp`) | `cmdQueue`, `notified`, the mutex | `executeCommand`; wait, drain, call back | lost wakeups; mutex held during I/O; an exception ends the process | each accepted command is run and called back once, in order; callers return |
| USB link (`libdbb/dbb.cpp`, `dbb_app.cpp`) | `HID_HANDLE`, `HID_REPORT`, `widget` | open, poll, send with a read loop | the handle is replaced without a lock under a running command; unplug and replug at any time; no timeout | answers come whole and from the device asked; the window learns what is plugged in |
| GUI session (`qt/dbb_gui.cpp`) | `processComnand`, the session password and its copy, `deviceConnected`, open dialogs | buttons, dialogs, `parseResponse`, `changeConnectedState` | nested event loops; answers that arrive under a dialog; state set before the answer | one command at a time; the busy flag falls again; a rejected change is undone |
| Copay client (`bpwalletclient.cpp`) | request key, master key, `copay.dat`, global chain parameters | seed, save, load, remove, join, get wallets, post signatures | the process dies between two writes or two keys; a key is stored long after the test that it is needed; parameters left switched; a lost reply | what is stored is whole and what the program works with; who is told to have joined is a copayer |
| Transaction proposals (`bpwalletclient.cpp:288-416`, `dbb_gui.cpp:185-297`) | the proposals fetched, what a callback captured | fetch, ask, build inputs, outputs and hashes, sign, post | order of inputs, scripts and paths; rounds that overlap | each hash is signed with the key of its own input and posted to its own proposal |
| DER signatures (`bpwalletclient.cpp:418-476`) | - | encode | leading zeroes, sign byte | the encoding is the minimal DER of (r, s) |
| Crypto envelope (`dbb.cpp:120-221`, `crypto.cpp`, `base64.cpp`) | - | pad, encrypt, base64 and back | two computations of one length; padding read from undecryptable data | the device reads what was sent, the window what was answered; failure is told apart |
| JSON (`univalue/`) | the stack of open values | read, write, find | a text that ends in the middle | reading inverts writing |
| Command line (`dbb_cli.cpp`) | - | substitute `%variables%` | index not adjusted after in-place edits: text is read twice or not at all | each variable is substituted once; a command that needs encryption never goes out in the clear |

## Modules

    CommandService            what the queue promises: FIFO, one callback per command
      ^ implemented by
    CommandQueue              threads, mutex, condition variable, flag
      MCCommandQueue          instance for TLC
      CommandQueueProofs      proofs
    DeviceLink                HID_HANDLE, polling, the read loop, the window's status
      MCDeviceLink            two configurations
      DeviceLinkProofs        proofs
    GuiSession                buttons, dialogs, answers; uses the queue as CommandService
      MCGuiSession            four configurations
      GuiSessionProofs        proofs
    CliTemplate               one call of dbb-cli, or its help for one command
      MCCliTemplate           instance for TLC
      CliTemplateProofs       proofs
    WalletClient              the Copay client's keys, its file, joining
      MCWalletClient          instance for TLC
      WalletClientProofs      proofs
    TxProposal                proposals from the wallet service and back
      DerSignature            ecdsa_sig_to_der and a reader of DER
      MCTxProposal            two configurations
      TxProposalProofs        proofs
    Exchange                  one encrypted command after another
      Base64                  both directions, and a reference by bits
      JsonReader              UniValue's read, write and find_value
      MCExchange              instance for TLC
      ExchangeProofs          proofs
    Induction                 lemmas: induction without an operator as parameter

### CommandQueue and CommandService

One action per statement of `executeCommand` and of `cmdThread`. `pc[c]` is where a caller
stands, `wpc` where the worker stands; `holder` is the owner of `cs_queue`. A request is one
call in flight (command, password and callback); its identity may be used again once it has
left the queue, so behaviours never run out of requests. What `DBB::sendCommand` may do is
the set `SendResults` (no handle, exception, answer); the two branches of lines 150-178 map
it, and the success of decryption, to what the callback is given. An exception on the branch
without password is `wpc = "aborted"`, the end of the process. `stopThread` is never set in
the code and is therefore absent.

`CommandService` has no threads: a queue, a reply per request, and termination. The
refinement mapping drops a request from the abstract queue when its callback runs
(`wpc = "pop"`), one step before the code pops it.

### DeviceLink

Every time the device is plugged in counts as a new device, numbered from 1; a handle is the
number of the device it was opened on, and 0 is NULL. `hid_enumerate` is "some device is
there", `hid_open` yields the present device or NULL, `hid_read` waits for a report of a live
device and fails on a dead handle, a NULL handle passed to hidapi kills the process. The three
threads interleave between any two hidapi calls. The buffer is represented by the number of
reports read and by the devices that they came from. The constructor of the window calls
`changeConnectedState` (142), which opens a modal password prompt if a device is there (342,
156): `mpc = "prompt"`, which only the user ends (`ClosePrompt`), and until then `widget` is
NULL and what the polls find out is signalled to nobody. `calm`, chosen once, tells two kinds
of users apart: a calm one plugs a device in only when the window is there and the poll has
missed the device before; what holds for such a user only says so.

### GuiSession

A modal Qt dialog runs an event loop inside the handler that opened it. So a handler is split
at each of its dialogs: the part up to the dialog pushes a name on `dialogs`, the rest is an
action enabled when that name is on top, and while a dialog is open events are still
delivered (and may push more) but buttons are not. `events` is what other threads have
posted to the main thread, in order; `queue` is `CommandService`'s queue, its delivery is
`Execute`. The device (`Effects`) and the failing connection (`Unanswered`) are external:
they are written from how `parseResponse` takes answers apart. What an answer may look like
is one of the shapes `parseResponse` distinguishes.

An uninitialised `processComnand` (constructor, line 46-145) is either Boolean initially.
The two `xpub` branches of `parseResponse` (500-562) are absent because the window never
posts an `xpub` command: `sendCommand` sets the flag (308) that makes the wrapper it calls
refuse (30). `WalletClient` has them, for a window in which the command is posted.

### CliTemplate

The scan of `dbb_cli.cpp` works on positions, so texts are sequences of cells that keep their
length: `%`, `|` and `!` are themselves, other characters of a template are `.`, and a word (a
variable's name, a default) is its name in the first cell and `_` in the others. A value is
any text of such cells, signs included, and so is the password, which is one of the arguments;
with an empty one `encryptAndEncodeCommand` does nothing (`dbb.cpp:179`) and the report that
is sent is blank (`Blank`). `vCommands` is the table of lines 60-92 in this form: the lengths
of the gaps between variables, the variables, and whether encryption is required. One action
is one character of the scan, or one step of `main` around it; the local variables of the scan
are the state. `Expected` is the reference: the template with every variable replaced at once.
As the scan goes on at its old place in the edited text, it skips what follows a short value
(unless the values are `Roomy`) and reads the end of a long one again, where a `%` opens a
token of its own (unless they are `ReadOnce`); `Readable` is both. Missing are the splitting
of the arguments (`dbb_util.cpp:97-122`), the key that an answer is decrypted with (247-252)
and what is printed apart from the list of variables.

### WalletClient

One object of `BitPayWalletClient` over any number of runs of the program; `pc = "off"` is
between two runs, and `Kill` leads there from anywhere. A key is represented by the device it
comes from, so a client whose two keys belong to different devices can be told from a sound
one. `SaveLocalData` has three steps: `fopen` truncates (`OpenFile`), the destructor of
`CAutoFile` writes both records, which fit the buffer of the stream, and closes it
(`CloseFile`), and `fclose` closes it again (`CloseAgain`), which is undefined behaviour: the
process ends or nothing happens. The same second `fclose` ends `LoadLocalData`. `params` is
the chain that `SelectParams` chose last; `CopayerId` and the extended key depend on it.
`ParseWalletInvitation` is the set of ways it ends (`Codes`): a code that `substr` rejects, one
without a wallet id, one without a private key, which leaves the main chain selected, and a
good one. The join request may be carried out or not, with a reply or without.

The window asks for keys with commands, and `asked` holds those under way, in the order of the
queue. A click on join (`JoinCopayWallet`) tests `IsSeeded` (line 688) and posts a command for
the master key; the answer to it (`MasterKey`) stores the key and posts the one for the
request key; the answer to that (`RequestKey`) stores the other. Neither answer looks at the
client again (517, 534), and each comes from whatever device is connected then. As a click
resets the flag that should keep the window from posting another command, a second click can
come before the first one is answered; `patient`, chosen once, is a user who never clicks that
early. `KeyRefused` is an answer without a key. This is a window in which the command for the
key is posted: in the code as it stands the wrapper refuses it (see GuiSession), so that the
answers of lines 500-562 never come.

### TxProposal and DerSignature

`Fetch`, `Decline` and `Agree` are `checkPaymentProposals` cut at its question, `Execute` the
callback on the worker, `Post` the slot behind the signal. The device signs what is queued at
any later time, while the user asks for proposals again. A hash is the record of what it is a
hash of, so that two hashes are equal only if script, transaction and input are. Amounts are
small integers, and `MaxInt` stands for the greatest value `get_int` accepts.

`DerSignature` has the encoder for `W` bytes per integer and, as reference, what a reader of
DER asks of the encoding of two positive integers.

### Exchange, Base64 and JsonReader

`Exchange` is one command of the encrypted branch of `cmdThread` after another: written as
JSON, padded, encrypted, put in base64 with its IV in front; taken apart by a device that has
the same password or another one; answered in an envelope, with an error, or with a ciphertext
that is none; cut or whole; decrypted or not, and read as JSON by the callback. A text is a
sequence of bytes, of which each stands for one token: `JsonReader` has `UniValue::read` from
token to token, with its stack of open values, and `write`. What makes a number or a string a
token, and their escapes, are not modelled. The cipher is external, any invertible chaining
cipher would do; under the wrong key it gives other bytes, in which a padding may look right
by chance. A ciphertext of fewer bytes than an IV makes `decryptAndDecodeCommand` read behind
its end and subtract below zero (`dbb.cpp:151-153`); the build may then end in any way, which
the model has as a choice of two, the end of the process (`Overread`) or a decryption that
fails. OpenSSL pads on its own; `Padded` is the length that `encryptAndEncodeCommand` works
out beside it (196) and copies (213). `base64_encode` and `base64_decode` work group by group
as in the code; the device decodes bit by bit (`BytesOf`), which is the reference.

## Runs

| run | checks | bounds |
| --- | --- | --- |
| `queue` | type, no lost wakeup, FIFO execution, every command answered, callers return, refinement of `CommandService!Spec` | 2 callers (GUI, HTTP), 3 requests of which 1 has no password: one caller can block on the mutex while two requests are queued |
| `link` | type, answers whole and from the device asked; a command fails only if its device was pulled; an open connection is one to the present device if the user is calm; connection (calm user) and loss, once the window is published, are learnt; a command ends | 3 plugs, 2 reports per answer, 2 queued signals; any user, and a calm one, who plugs the device in only after the window is there and after a poll has missed the last one |
| `link_replug` | violated: `OpenMeansOpen` | 2 plugs |
| `gui_session` | one command at a time, exact flag, bounded dialogs, right password restored, the flag falls again | 2 passwords, 3 dialogs and connection changes, clicks while at most 1 command or event is pending; faults: decline (object or text), error, no answer |
| `gui_session_all` | type, data given up only with a queued command | 1 password, 2 dialogs; join, proposals, device present at the start, unseeded client, device resets itself |
| `gui_join`, `gui_error` | violated, see below | the smallest button and fault sets that show it |
| `cli` | type, the text sent is the one asked for if the values are `Readable`, nothing that needs encryption goes out in the clear whatever they are, a refusal has a reason, the help lists all variables | every command, every set of arguments, seven values: empty, a single `%`, words of 7, 12 and 30 characters, words of 20 with a token behind them; no password, an empty one, another |
| `wallet` | type, what is stored is what the program works with, nobody is registered on the main chain; for a user who waits, stored keys are lost through an erase only and who is told to have joined has | 2 devices, 3 commands for a key under way, or 1 with a user who waits; any number of runs, kills, erases, clicks and joins |
| `proposal` | type, the key of the input's path signs the hash of this input, the outputs add up, a signature goes to its own proposal, in minimal DER | 4 proposals (either order of outputs, two inputs, an input beyond `MaxInt`), 2 rounds, integers of 2 bytes, 16 signatures |
| `proposal_inputs` | violated: `HashesReadyForSigning` | the same |
| `exchange` | type, the device reads the command, the window gets the answer, the status tells a decrypted text from another, bytes are read behind the end for garbage only | blocks of 4 bytes, 2 IVs, 2 passwords, commands of 2, 5, 7 and 8 tokens, answers of 6, 11 and 15, every cut |

Why the bounds suffice. The queue's invariants relate one caller to the worker, a second
caller gives contention and a third request a queue longer than one while someone waits. In
`DeviceLink` three plugs are needed to replace a device twice during one command, and two
reports to be between two reads. In `GuiSession` three stacked dialogs suffice for a prompt on
top of an answer's box on top of a prompt; two passwords tell an old password from a new one.
The tokens of the templates are 6 to 21 characters long, so the lengths of the values in
`CliTemplate` make a text shorter, a little longer and much longer, and 20 characters put a
sign behind the place where the scan goes on, or before it, as the token is long. No value in
the run names itself or an argument: a value whose end, read again, is its own variable would
be put in without end, in the code too. In `WalletClient` two devices are as many as one
client can mix; three commands are a click, a second one, and the request that the first
answer posts between them. In `TxProposal` a second round is needed for proposals to change
under a command, and two commands for their answers to be mixed up; two bytes per integer have
every combination of leading zeroes and set first bits. The lengths in `Exchange` leave every
remainder by the block and, with the IV, every remainder by three. `MaxPlugs`, `MaxSignals`,
`MaxDialogs`, `MaxCommands`, `MaxClicks` and `MaxAsked` are the bounds on what would otherwise
grow without limit; the code has no such limits.

Fairness. In `CommandQueue` every thread is strongly fair: the scheduler runs it and a mutex
that becomes free again and again is obtained. Leaving "send" under fairness means that
`sendCommand` returns or throws; `hid_read` has no timeout, so this is an assumption about the
device, and `DeviceLink` examines when it fails (`Stranded`). In `DeviceLink` each of the
three threads is weakly fair, and a device that owes a report sends it; plugging, unplugging,
starting commands and closing the constructor's prompt have no fairness. So
`WindowLearnsDisconnect` has as its condition that the window is published some day
(`<>widget`); without it the property is false. A command that is `Stranded` for ever keeps
`cs_queue`, and with it a main thread that wants to post one, which is why
`WindowLearnsConnection` leaves that case out; for `WindowLearnsDisconnect` it does not arise,
as a read from a device that is gone fails. In `GuiSession` only the worker (`Execute`) and the event loop
(`Dispatch`) are fair; the user may leave any dialog open for ever. `WalletClient`,
`TxProposal` and `Exchange` are checked for safety only and assume no fairness.

### Where the code departs from its own comments

- `link_replug`: `include/dbb.h:17` promises "true if a USBHID connection is open". After a
  quick replug the handle is dead, a device is listed, the answer is yes, and the handle is
  never replaced (`dbb.cpp:60-77`).
- `gui_join`: "the UI should only post one command into the queue" (`dbb_gui.cpp:302`), but
  `setResultText` resets the flag while a command is queued.
- `gui_error`: "reset password in case of an error" (493, 573), but neither an error object
  nor a missing answer gets there.
- `proposal_inputs`: "export inputs keypath/hashes ready for signing"
  (`bpwalletclient.h:93`), but every hash is that of input 0 (`bpwalletclient.cpp:408`), which
  is the last input of the proposal, as inputs are inserted at the front (374).

Others were met on the way and have no run of their own:

- A device opened between lines 142 and 228 (constructor and assignment of `widget`) is
  announced to nobody, at no later time (`dbb_app.cpp:197`). `WindowLearnsConnection` is
  therefore about devices that are opened once the window exists.
- "if there is no xpub and request key, seed over DBB" (`dbb_gui.cpp:689`), but `sendCommand`
  sets the flag that makes the wrapper refuse: an unseeded client stays unseeded.
- "%var% will be replace with a corresponding command line agrument" (`dbb_cli.cpp:54`), but
  behind a value that is shorter than its token the scan leaves characters out (208), with them
  the `%` of the next variable, which is sent as it stands: a `sign -type=hash` is enough. And
  the end of a value that is longer than its token is scanned again (218): a `%` in it opens a
  token that is replaced in its turn, or refused. `SendsWhatWasAsked` fails with `Roomy`
  or `ReadOnce` alone in the place of `Readable`.
- While the constructor sits in its password prompt a device that is pulled is reported to
  nobody, and if the prompt stays open nobody ever hears of it.
- `dbb-cli` with an empty `-password=` asks for encryption and sends a blank report, as nobody
  looks at what `encryptAndEncodeCommand` returns (`dbb_cli.cpp:245`).
- If the window posted its commands for the keys, a second click on join before the first is
  answered would post a second pair, and the answers to it would replace the keys of a client
  that is seeded, joined and saved; each of them truncates a whole `copay.dat` first, so that a
  process that ends then leaves an empty one. `StoredKeysAreSafe` and `JoinedMeansCopayer` fail
  without `patient` as soon as `MaxAsked` is 2. Nothing
  asks whether both keys are of one device, and they need not be.
- An answer whose ciphertext has fewer than 16 bytes is read behind its end (`Overread`).
- "seed over DBB" twice: the erase button removes `copay.dat` and leaves the keys in memory
  (`bpwalletclient.cpp:690`); until the next start the client goes on with the keys of the
  erased device, and is not seeded again.
- A start with an empty `copay.dat`, which a process leaves that ends between opening and
  closing it, throws out of the constructor of the window, and so does every later start.
- After an invitation without a private key the main chain stays selected (224) and requests
  carry another identity, until a good code or the next start; the wallet that was joined is
  out of reach.
- If the reply to a join is lost the user is told that joining failed, and is refused when he
  tries again.
- With two inputs or more `inTotal` is the last of their values (347), so that the change is
  wrong; an input of 2^31 satoshis or more makes `get_int` throw through the slot.
- The answer of the wallet service is taken for a wallet. An error object, also that for a
  client which has not joined yet, has no copayers, and `getValues` throws through the slot
  (`dbb_gui.cpp:208`), which ends the process (`FetchRefused`).
- A text that was decrypted with the wrong password and happens to end like a padding counts
  as decrypted: the envelope has no checksum.
- `find_value` looks for the value at the position of the key (`univalue.cpp:288`); a text that
  ends after a colon has one key more than values. On the branch without password such a text
  can be a cut answer, and nobody asks whether it was read to its end (`dbb_gui.cpp:314`).
- The end of the constructor resets the flag (145) while the command that
  `changeConnectedState` posts for a device present at the start is queued.
- No answer to a signing command resets the flag: for an error or a missing answer the
  callback signals nothing at all (253). `BusyEnds` is therefore checked without the proposals
  button.
- If the device resets itself (error 110) while the text of a declined erase is on the screen
  and is then given a new password, `TouchText` restores a password that is no longer the
  device's. `RestoresRightPassword` is checked with a device that does not reset itself.
- The help shows the default of an earlier variable for those without one (151), also for
  mandatory ones; `README.md:56` and `README.md:64` repeat such values. `HelpIsComplete` asks
  only for the names and for the defaults that the variables do have.
- The example `dbb-cli -keypath=m/44/0 xpub` (`README.md:44`) is refused for want of a
  password (230).

## Proofs

`tlapm` checks the eight proof modules; the theorems hold for all values of the constants
that satisfy the named assumptions. Every invariant and action property of a passing run is
stated by a theorem; only liveness is left to TLC (below).

- **CommandQueueProofs.** `IInv` adds to the type invariant who holds the mutex at each
  program counter (`MutexInv`), that the flag is set while commands wait, or a caller is about
  to set it (`FlagInv`), what the worker's local variables hold (`LocalsInv`), that requests in
  the queue and in callers' hands are distinct (`DistinctInv`), and that a queued one has no
  reply yet (`ReplyInv`). `NoLostWakeup` alone is not inductive: whether the worker may fall
  asleep depends on the flag, and who may change the flag on the mutex. `AlwaysExecutesFront`
  needs the distinctness, and `ServiceImplemented` maps each step to a step of
  `CommandService` or a stutter.
- **DeviceLinkProofs.** `HandleInv` says that a handle which differs from the present device
  can only be that of an earlier one; `AddresseeInv` and `SourceInv`, that once a command was
  written the reports read so far came from its addressee and are as many as that device no
  longer owes. Thereby a handle replaced in mid-answer can never complete the answer.
  `CalmInv` says that with a calm user an open handle is that of the present device, because
  the dead one was dropped before the next device came; `CalmConnections` follows.
- **GuiSessionProofs.** `OneCommand` and `NestingIsBounded` hold under `Guarded` (no join
  button, no device at the start), `FlagIsExact` under `Plain`, that is without the proposals
  button too, whose answer never resets the flag; `gui_join` and the list above show where
  they fail without. The invariant `OneInv` says that at most one command or answer is in
  transit, and then behind a flag that is set (`FlagInv`); `HandlersInv` names the handlers
  that the conditions leave out. With the proposals a command may be answered without
  `gotResponse`, which only makes the flag say too much, never too little.
  `BoundedNesting` is not inductive: a dialog is opened by an event, so `RoomInv` bounds what
  is under way by what may still be announced, one less while the window is idle.
  `RestoresRightPassword` holds under `Honest`, that is `Guarded` and a device that does not
  reset itself: `RestoreInv` follows a change from the click that copies the password to the
  dialog that undoes it, through the command in the queue (`CommandCopy`), the answer that
  waits for the event loop (`AnswerCopy`) and the text on the screen under further dialogs
  (`TextInv`). `CopyWithCommand` needs no condition.
- **WalletClientProofs.** For any set of devices and any `MaxAsked`: `MemoryIsSaved` is not
  inductive, as what a save writes must be a whole record. `KeysInv` says that a request key is
  asked for, and comes, after a master key; `FileInv` for each place of the process what
  `copay.dat` holds, `StartInv` what a process has before it loads, `JoinInv` what is known of
  the request under way. `JoinsAreGenuine` and `KeysAreSafe` are about a user who waits:
  `Waiting` adds that a seeded process then has no command under way, so that a save begins
  without a file.
- **TxProposalProofs.** For any finite set of proposals: commands, events and what was posted
  carry the first path and hash of the proposal they travel with (`Own`); which hash this is
  follows from the definitions of `ParseTxProposal` alone (`FirstHash`, `SingleInput`). From
  these `SignsOwnInput`, `ChangeAddsUp` and `SignatureGoesHome`, the last because proposals
  with one id are one. `MinimalDer` is about the encoder: the value of a sequence of bytes is
  that of the sequence without its leading zeroes (`LeadingZeroes`, by induction over their
  number), so each half is encoded with its value and no shorter (`IntegerIsMinimal`), for
  integers of 1 to 32 bytes.
- **Induction.** What is defined by recursion is reasoned about with sets: a set of numbers
  with 0 and all successors is everything, and a set of numbers has a least element, so that
  the numbers without a property have a least one, or there are none. Both rest on the natural
  numbers being well-ordered.
- **ExchangeProofs.** First the operators, for every input. `base64_decode` gives back what
  `base64_encode` was given, and so do the device's bits (`DecodesEncoding`,
  `BytesOfEncoding`); the cipher's chaining is undone (`CbcIsInverted`); the padding is found
  where it was put (`OpenedText`). The reader, which goes from token to token over its stack,
  accepts what the writer wrote of any object or array and gives the same value
  (`ReadsWritten`): a value that is not read back and none of whose members is such a value
  exists by `TreeAssumption` if there is one at all, and there is none, because each member
  takes the reader from one place between the brackets to the next (`PartIsRead`,
  `MembersAreRead`). A text cut anywhere before its end is not taken for a whole one, for the
  three texts that a device sends (`CutAnswer`). Written texts consist of bytes other than 0,
  so `c_str()` does not shorten them (`WrittenBytes`, `TextIsCString`). Then the steps:
  `ExchangeInv` says what `sendCommand` was given, that `raw` is one of an envelope with the
  answer, a word of refusal, or the beginning of one of these (`RawIsKnown`), and of `answer`
  that it is nothing before the device has answered. `AnswerIsDelivered` and `StatusTellsText`
  speak of the last step and are not inductive without these, and neither is
  `OnlyGarbageOverreads` (`GarbageOverreads`): that an envelope is long enough under any key
  follows from how it was sealed and from base64 giving it back, that a cut answer never gets
  so far from `CutAnswer`. Assumed are a cipher key and IVs of bytes, a block of at most 255,
  that the values sent are well-formed (`IsValue`) finite trees, which every `UniValue` is,
  and that answers are objects.
- **CliTemplateProofs.** The scan edits the text that it walks over, so the invariant has to
  say which text this is. `ScanInv`: some number i of variables is done; the text is the
  template with the first i replaced (all of it as it was for the help); and the scan is
  behind the i-th replacement and has not passed the next token, or is inside that token and
  has seen its delimiter exactly if it went past it. That replacing leaves what lies around a
  variable alone is `Divides`; what the scan reads at a closing sign is `Reads`. `Roomy` is
  needed in one place (`Beyond`): a scan that goes on at its old place in a shorter text must
  not have passed the next sign. `ReadOnce` is needed in another: a scan that goes on inside
  the value it has put in must find no sign there. The theorems hold for the whole table, any
  set of arguments and any values and passwords of these cells; what `SendsAsked` and
  `RefusesIncomplete` say of the text has `Readable` of the call at hand as a condition, that
  nothing goes out in the clear has none.

Left to TLC are the liveness properties (`EveryCommandAnswered`, `CallersReturn`,
`CommandEnds`, `WindowLearnsConnection`, `WindowLearnsDisconnect`, `BusyEnds`) and the fair
part of `ImplementsService`, which need fairness and `ENABLED`. Not proved either, because no
property of a run speaks of it, is what the reader does with texts that nobody wrote.

## Not modelled

- `closeConnection`: no caller. Page switching, labels, icons, the loading indicator.
- libevent, libcurl, OpenSSL, hidapi, Qt, bitcoin-core: external; modelled only as far as
  the code's reaction to them.
- Of univalue: escapes and their undoing, the syntax of numbers, reals, indentation and the
  typed getters. The seed dialog (unused), the build system.
- The search of `setRequestPubKey` for a valid private key (`bpwalletclient.cpp:136-153`): it
  goes past its first window with a probability of about 2^-127. A write to `copay.dat` that
  fails, as on a full disk. `seed()` and `BroadcastProposal`: no caller.
- The hash functions of `crypto.cpp`, headers and signatures of requests, HTTP.
- The reference that the signing callback keeps to a dead local variable
  (`dbb_gui.cpp:252, 280`): undefined behaviour in memory that the models do not have.
- `App`, the composition of `GuiSession`, `CommandQueue` and `DeviceLink` in one state space:
  `GuiSession` is composed with `CommandService`, which `CommandQueue` implements, and what it
  assumes of the link (an answer, an error, or none) is what `DeviceLink` can do.

## Plan

The invariants and action properties of the runs are proved. What may still be done:

1. `JsonReader`: that a text cut before its end is never read as a whole value, for every
   written text and not only for those of the device.
2. The safety part of what the liveness properties rest on: that a caller, the worker or the
   event loop is never left without a step that it could take.
