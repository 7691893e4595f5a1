------------------------------ MODULE Exchange ------------------------------
(***************************************************************************)
(* One command after another with a password: encryptAndEncodeCommand and  *)
(* decryptAndDecodeCommand of src/src/libdbb/dbb.cpp, aesEncrypt and       *)
(* aesDecrypt of src/src/libdbb/crypto.cpp, the branch of cmdThread in     *)
(* src/src/dbb_app.cpp that uses them, and the reading of the answer in    *)
(* the callbacks of src/src/qt/dbb_gui.cpp.                                *)
(*                                                                         *)
(* Texts are those of JsonReader, one byte for a token.  External are the  *)
(* device and the block cipher: the cipher is any invertible function, and *)
(* under another key than that of the sender it gives other bytes.  A key  *)
(* stands for a password.                                                  *)
(***************************************************************************)
EXTENDS Naturals, Sequences, SequencesExt, FiniteSetsExt

CONSTANTS Block,      \* DBB_AES_BLOCKSIZE
          Keys,       \* passwords, hashed
          IVs,        \* what getRandIV may give
          Commands,   \* the values that are sent as commands
          Answers,    \* the values that the device answers
          Members     \* the values in those, and the values in them

INSTANCE Base64
J == INSTANCE JsonReader

Byte == 0..255

ASSUME ExchangeAssumption == /\ Block \in 1..255
                             /\ Keys \subseteq Byte
                             /\ IVs \subseteq [1..Block -> Byte]
                             /\ Commands \cup Answers \subseteq Members
                             /\ \A v \in Members : J!IsValue(v, Members)
                             /\ \A a \in Answers : a.typ = "object"

\* Values are trees: in every set of them one has no member in the set.
ASSUME TreeAssumption ==
    \A S \in SUBSET Members : S # {} => \E v \in S : Range(v.values) \cap S = {}

VARIABLES step,        \* where the worker is with the command
          password,    \* of the session
          devicePassword,
          cmd,         \* the command
          sent,        \* base64str, what sendCommand got
          taken,       \* the text that the device made of it
          answer,      \* what the device answers to a command it could read
          raw,         \* cmdOut, what sendCommand returned
          whole,       \* it has not been cut
          out, status, \* what the callback is given
          response     \* jsonOut, what the callback makes of it

link == <<password, devicePassword>>
vars == <<step, link, cmd, sent, taken, answer, raw, whole, out, status, response>>
-----------------------------------------------------------------------------
Write == J!Texts(Members)

\* Names and strings of the protocol; "ciphertext" is the only one whose
\* content counts, it is kept apart from the text.
Ciphertext == 201
Input == 202
Error == 203
Base64String == 210

Raw(text, body) == [text |-> text, body |-> body]
-----------------------------------------------------------------------------
(***************************************************************************)
(* Encryption.                                                             *)
(***************************************************************************)
\* External: CBC over a block cipher, byte by byte for each place of a block.
Cbc(key, iv, msg) ==
    LET c[i \in DOMAIN msg] == (msg[i] + key + (IF i <= Block THEN iv[i] ELSE c[i - Block])) % 256
    IN  [i \in DOMAIN msg |-> c[i]]

CbcInverse(key, iv, msg) ==
    [i \in DOMAIN msg |-> (msg[i] + 512 - key - (IF i <= Block THEN iv[i] ELSE msg[i - Block])) % 256]

\* OpenSSL pads what it gets, which is the command without the padding that
\* encryptAndEncodeCommand has put behind it.
aesEncrypt(key, iv, msg) ==
    LET pad == Block - (Len(msg) % Block)
    IN  Cbc(key, iv, msg \o [i \in 1..pad |-> pad])

\* Without a last block that ends in its padding EVP_DecryptFinal_ex fails;
\* the padding stays in the buffer.
aesDecrypt(key, iv, msg) ==
    LET stream == CbcInverse(key, iv, msg)
        n == Len(stream)
    IN  [ok |-> /\ n > 0
                /\ n % Block = 0
                /\ stream[n] \in 1..Block
                /\ \A i \in n + 1 - stream[n]..n : stream[i] = stream[n],
         stream |-> stream]

\* Mutant of Padded: a text that fills its last block is not padded.
BugNoFullPad(n) == n + ((Block - (n % Block)) % Block)

\* inpadlen, the bytes of the ciphertext that are sent.
Padded(n) == n + (Block - (n % Block))

\* The IV goes first.
encryptAndEncodeCommand(text, key, iv) ==
    base64_encode(iv \o SubSeq(aesEncrypt(key, iv, text), 1, Padded(Len(text))))

\* What assign() takes of a buffer, up to the first zero.
CString(bytes) ==
    SubSeq(bytes, 1, Min({i \in 0..Len(bytes) : i = Len(bytes) \/ bytes[i + 1] = 0}))

Failed == [ok |-> FALSE, text |-> <<>>]

\* From base64_decode on.  With fewer bytes than an IV it fails, if the program
\* is still there (Overread).
Deciphered(key, chars) ==
    LET bytes == base64_decode(chars)
        d == aesDecrypt(key, SubSeq(bytes, 1, Block), SubSeq(bytes, Block + 1, Len(bytes)))
    IN  IF Len(bytes) < Block \/ ~d.ok
          THEN Failed
          ELSE [ok |-> TRUE, text |-> CString(SubSeq(d.stream, 1, Len(d.stream) - Last(d.stream)))]

\* Mutant of HasCiphertext: what read() returns is not looked at.
BugIgnoreRead(r) ==
    LET value == J!read(r.text).value
    IN  /\ J!find_value(J!find_value(value, Input), Error).typ # "string"
        /\ J!find_value(value, Ciphertext).typ = "string"

\* A text that does not read throws, and so do an error of the device and a
\* value that has no ciphertext.
HasCiphertext(r) ==
    LET valRead == J!read(r.text)
        error   == J!find_value(J!find_value(valRead.value, Input), Error)
        ctext   == J!find_value(valRead.value, Ciphertext)
    IN  valRead.ok /\ error.typ # "string" /\ ctext.typ = "string"

decryptAndDecodeCommand(r, key) ==
    IF HasCiphertext(r) THEN Deciphered(key, r.body) ELSE Failed

\* The IV would be read behind the end of the bytes, and base64_len less a block
\* is nearly 2^32.
TooShort(r) == HasCiphertext(r) /\ Len(base64_decode(r.body)) < Block
-----------------------------------------------------------------------------
NoRaw == Raw(<<>>, <<>>)

Init == /\ step = "idle"
        /\ password \in Keys
        /\ devicePassword \in Keys
        /\ cmd \in Commands
        /\ sent = <<>>
        /\ taken = <<>>
        /\ answer = J!Null
        /\ raw = NoRaw
        /\ whole = TRUE
        /\ out = <<>>
        /\ status = "OK"
        /\ response = J!Null

Encrypt == /\ step = "idle"
           /\ \E c \in Commands, iv \in IVs :
                 /\ cmd' = c
                 /\ sent' = encryptAndEncodeCommand(Write[c], password, iv)
           /\ step' = "send"
           /\ taken' = <<>>
           /\ answer' = J!Null
           /\ raw' = NoRaw
           /\ whole' = TRUE
           /\ UNCHANGED <<link, out, status, response>>

\* No handle, or an exception of hid_read: the callback gets an empty text.
SendFails == /\ step = "send"
             /\ out' = <<>>
             /\ status' = "ENCRYPTION_FAILED"
             /\ step' = "callback"
             /\ UNCHANGED <<link, cmd, sent, taken, answer, raw, whole, response>>

\* External: the device decodes the command, by the bits of its characters.
Receive == /\ step = "send"
           /\ LET bytes == BytesOf(sent)
                  d == aesDecrypt(devicePassword, SubSeq(bytes, 1, Block),
                                  SubSeq(bytes, Block + 1, Len(bytes)))
              IN  taken' = IF d.ok THEN SubSeq(d.stream, 1, Len(d.stream) - Last(d.stream)) ELSE <<>>
           /\ step' = "device"
           /\ UNCHANGED <<link, cmd, sent, answer, raw, whole, out, status, response>>

\* External: it answers in an envelope of its own a command that it could read,
\* and other ones with an error; its answer may be cut at the end of the report.
CiphertextText == <<J!ObjOpen, Ciphertext, J!Colon, Base64String, J!ObjClose>>
InputErrorText == <<J!ObjOpen, Input, J!Colon, J!ObjOpen, Error, J!Colon, Base64String,
                    J!ObjClose, J!ObjClose>>
ErrorText == <<J!ObjOpen, Error, J!Colon, J!ObjOpen, J!ObjClose, J!ObjClose>>

Reply(r) == \/ /\ raw' = r
               /\ whole' = TRUE
            \/ \E n \in 0..Len(r.text) - 1 :
                 /\ raw' = [r EXCEPT !.text = SubSeq(@, 1, n)]
                 /\ whole' = FALSE

Respond == /\ step = "device"
           /\ \/ /\ J!read(taken).ok
                 /\ \E a \in Answers, iv \in IVs :
                       /\ answer' = a
                       /\ Reply(Raw(CiphertextText,
                                    base64_encode(iv \o aesEncrypt(devicePassword, iv, Write[a]))))
              \/ /\ UNCHANGED answer
                 /\ \/ Reply(Raw(InputErrorText, <<>>))
                    \/ Reply(Raw(ErrorText, <<>>))
                    \/ Reply(Raw(CiphertextText, <<Other>>))
           /\ step' = "answer"
           /\ UNCHANGED <<link, cmd, sent, taken, out, status, response>>

\* Mutant of Decrypt: the exception is caught and the status forgotten.
BugKeepStatus == /\ step = "answer"
                 /\ LET d == decryptAndDecodeCommand(raw, password)
                    IN  out' = IF d.ok THEN d.text ELSE raw.text
                 /\ status' = "OK"
                 /\ step' = "callback"
                 /\ UNCHANGED <<link, cmd, sent, taken, answer, raw, whole, response>>

Decrypt == /\ step = "answer"
           /\ LET d == decryptAndDecodeCommand(raw, password)
              IN  IF d.ok THEN out' = d.text /\ status' = "OK"
                          ELSE out' = raw.text /\ status' = "ENCRYPTION_FAILED"
           /\ step' = "callback"
           /\ UNCHANGED <<link, cmd, sent, taken, answer, raw, whole, response>>

\* With too few bytes the behaviour is undefined: the program may end here, or
\* aesDecrypt refuses the length and the command fails as others do (Decrypt).
Overread == /\ step = "answer"
            /\ TooShort(raw)
            /\ step' = "crashed"
            /\ UNCHANGED <<link, cmd, sent, taken, answer, raw, whole, out, status, response>>

\* jsonOut.read(cmdOut): nobody asks whether it succeeded.
Callback == /\ step = "callback"
            /\ response' = J!read(out).value
            /\ step' = "idle"
            /\ UNCHANGED <<link, cmd, sent, taken, answer, raw, whole, out, status>>

Crashed == step = "crashed" /\ UNCHANGED vars

Next == \/ Encrypt \/ SendFails \/ Receive \/ Respond \/ Decrypt \/ Callback
        \/ Overread \/ Crashed

Spec == Init /\ [][Next]_vars
-----------------------------------------------------------------------------
(***************************************************************************)
(* Properties.                                                             *)
(***************************************************************************)
\* The types of the texts on their way.
TypeOK == /\ step \in {"idle", "send", "device", "answer", "callback", "crashed"}
          /\ password \in Keys /\ devicePassword \in Keys
          /\ cmd \in Commands
          /\ sent \in Seq(Sextet \cup {Equals})
          /\ taken \in Seq(Byte)
          /\ raw.text \in Seq(Byte) /\ raw.body \in Seq(0..Other)
          /\ whole \in BOOLEAN
          /\ out \in Seq(Byte)
          /\ status \in {"OK", "ENCRYPTION_FAILED"}

\* A device with the password of the session reads the command that was posted,
\* whatever its length leaves over in the last block and in the last group of
\* base64 characters (lines 174-220 of dbb.cpp, base64.cpp).
DeviceReadsCommand ==
    step = "device" /\ password = devicePassword => taken = Write[cmd]

\* Its encrypted answer, if it is not cut, reaches the window as the value that
\* the device sent (lines 120-172 of dbb.cpp, univalue_read.cpp).
AnswerIsDelivered ==
    step = "idle" /\ password = devicePassword /\ answer # J!Null /\ whole
        => response = answer

\* The status tells what the text is.  Only a whole envelope counts as
\* decrypted, and with the device's password it does, as the text that was
\* sealed in it; otherwise the text is the answer as it came, never half of
\* something decoded (lines 150-173 of dbb_app.cpp).
StatusTellsText ==
    step = "callback" =>
        /\ status = "OK" => whole /\ answer # J!Null
        /\ status # "OK" => out = raw.text
        /\ password = devicePassword /\ whole /\ answer # J!Null
             => status = "OK" /\ out = Write[answer]

\* The bytes run out only for an answer that carries none to decipher.  What a
\* device seals, in an envelope of any length, is long enough with the right
\* password and with a wrong one, and an answer that was cut never gets there
\* (lines 127-153 of dbb.cpp, base64.cpp).
OnlyGarbageOverreads ==
    step = "crashed" => whole /\ answer = J!Null
=============================================================================
