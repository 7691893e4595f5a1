---------------------------- MODULE CliTemplateProofs ----------------------------
(***************************************************************************)
(* Proofs about CliTemplate, for every table entry, every set of arguments *)
(* and all values that they may have. The scan of src/src/dbb_cli.cpp       *)
(* (192-228, and 123-159 for the help) changes the text that it reads. The *)
(* inductive invariant Inv says what text this is (ScanInv): that of the   *)
(* command with the first i variables replaced; and where the scan is in   *)
(* it: behind the i-th variable and not yet past the next one, or inside   *)
(* the token of the next one. Readable is what keeps a scan that goes on   *)
(* at the old place from passing over the next sign in a shorter text, and *)
(* from reading a sign of the value in a longer one (Beyond). What         *)
(* lies around a variable is the same before and after it is replaced      *)
(* (Divides, Around), so what the scan does not read it does not change.   *)
(***************************************************************************)
EXTENDS CliTemplate, Induction, SequenceTheorems, TLAPS

-----------------------------------------------------------------------------
(***************************************************************************)
(* The table: the texts and variables of vCommands (dbb_cli.cpp 59-90)     *)
(* have this form.                                                         *)
(***************************************************************************)
\* The words in names and defaults.
NameWords == {"newpassword", "source", "decrypt", "salt", "encrypt", "filename", "type", "data",
              "keypath", "changekeypath", "name", "mode", "operation"}
DefaultWords == {"create", "no", "backup.dat", "transaction", "true", "encrypt"}
NameTexts == {Word(w, n) : w \in NameWords, n \in 1..13}
DefaultTexts == {<<>>} \cup {Word(w, n) : w \in DefaultWords, n \in 1..11}

GoodVariables ==
    {Variable(name, default, mandatory) :
        name \in NameTexts, default \in DefaultTexts, mandatory \in BOOLEAN}

\* An entry: at most four variables, one more gap, and a text before the first variable.
Good(e) == /\ e.variables \in Seq(GoodVariables) /\ Len(e.variables) \in 0..4
           /\ e.gaps \in Seq(Nat) /\ Len(e.gaps) = Len(e.variables) + 1
           /\ e.gaps[1] > 0
           /\ e.requiresEncryption \in BOOLEAN

\* Each way to write a variable makes one of these.
LEMMA GoodVariable ==
  ASSUME NEW w \in NameWords, NEW n \in 1..13
  PROVE  /\ Plain(Word(w, n)) \in GoodVariables
         /\ Mandatory(Word(w, n)) \in GoodVariables
         /\ \A x \in DefaultWords, k \in 1..11 : Default(Word(w, n), Word(x, k)) \in GoodVariables
  <1>1. Word(w, n) \in NameTexts
    BY DEF NameTexts
  <1>2. \A x \in DefaultWords, k \in 1..11 : Word(x, k) \in DefaultTexts
    BY DEF DefaultTexts
  <1>3. <<>> \in DefaultTexts
    BY DEF DefaultTexts
  <1>4. \A a \in NameTexts, d \in DefaultTexts, m \in BOOLEAN : Variable(a, d, m) \in GoodVariables
    BY DEF GoodVariables
  <1>5. Plain(Word(w, n)) \in GoodVariables /\ Mandatory(Word(w, n)) \in GoodVariables
    BY <1>1, <1>3, <1>4 DEF Plain, Mandatory
  <1>6. \A x \in DefaultWords, k \in 1..11 : Default(Word(w, n), Word(x, k)) \in GoodVariables
    BY <1>1, <1>2, <1>4 DEF Default
  <1> QED
    BY <1>5, <1>6

\* An entry with as many variables as gaps between its texts is a good one.
LEMMA GoodEntry ==
  ASSUME NEW g \in Seq(Nat), NEW b \in BOOLEAN, g[1] > 0
  PROVE  /\ Len(g) = 1 => Good(Entry(g, <<>>, b))
         /\ Len(g) = 2 => \A u \in GoodVariables : Good(Entry(g, <<u>>, b))
         /\ Len(g) = 3 => \A u, v \in GoodVariables : Good(Entry(g, <<u, v>>, b))
         /\ Len(g) = 4 => \A u, v, w \in GoodVariables : Good(Entry(g, <<u, v, w>>, b))
         /\ Len(g) = 5 => \A u, v, w, x \in GoodVariables : Good(Entry(g, <<u, v, w, x>>, b))
  <1>1. ASSUME NEW vs \in Seq(GoodVariables), Len(vs) \in 0..4, Len(g) = Len(vs) + 1
        PROVE  Good(Entry(g, vs, b))
    BY <1>1 DEF Good, Entry
  <1>2. ASSUME Len(g) = 1 PROVE Good(Entry(g, <<>>, b))
    <2> DEFINE vs == <<>>
    <2>1. vs \in Seq(GoodVariables) /\ Len(vs) = 0
      OBVIOUS
    <2> HIDE DEF vs
    <2>2. Len(vs) \in 0..4 /\ Len(g) = Len(vs) + 1
      BY <1>2, <2>1
    <2>3. Good(Entry(g, vs, b))
      BY <1>1, <2>1, <2>2
    <2> QED
      BY <2>3 DEF vs
  <1>3. ASSUME Len(g) = 2, NEW u \in GoodVariables
        PROVE  Good(Entry(g, <<u>>, b))
    <2> DEFINE vs == <<u>>
    <2>1. vs \in Seq(GoodVariables) /\ Len(vs) = 1
      OBVIOUS
    <2> HIDE DEF vs
    <2>2. Len(vs) \in 0..4 /\ Len(g) = Len(vs) + 1
      BY <1>3, <2>1
    <2>3. Good(Entry(g, vs, b))
      BY <1>1, <2>1, <2>2
    <2> QED
      BY <2>3 DEF vs
  <1>4. ASSUME Len(g) = 3, NEW u \in GoodVariables, NEW v \in GoodVariables
        PROVE  Good(Entry(g, <<u, v>>, b))
    <2> DEFINE vs == <<u, v>>
    <2>1. vs \in Seq(GoodVariables) /\ Len(vs) = 2
      OBVIOUS
    <2> HIDE DEF vs
    <2>2. Len(vs) \in 0..4 /\ Len(g) = Len(vs) + 1
      BY <1>4, <2>1
    <2>3. Good(Entry(g, vs, b))
      BY <1>1, <2>1, <2>2
    <2> QED
      BY <2>3 DEF vs
  <1>5. ASSUME Len(g) = 4, NEW u \in GoodVariables, NEW v \in GoodVariables, NEW w \in GoodVariables
        PROVE  Good(Entry(g, <<u, v, w>>, b))
    <2> DEFINE vs == <<u, v, w>>
    <2>1. vs \in Seq(GoodVariables) /\ Len(vs) = 3
      OBVIOUS
    <2> HIDE DEF vs
    <2>2. Len(vs) \in 0..4 /\ Len(g) = Len(vs) + 1
      BY <1>5, <2>1
    <2>3. Good(Entry(g, vs, b))
      BY <1>1, <2>1, <2>2
    <2> QED
      BY <2>3 DEF vs
  <1>6. ASSUME Len(g) = 5, NEW u \in GoodVariables, NEW v \in GoodVariables,
        NEW w \in GoodVariables, NEW x \in GoodVariables
        PROVE  Good(Entry(g, <<u, v, w, x>>, b))
    <2> DEFINE vs == <<u, v, w, x>>
    <2>1. vs \in Seq(GoodVariables) /\ Len(vs) = 4
      OBVIOUS
    <2> HIDE DEF vs
    <2>2. Len(vs) \in 0..4 /\ Len(g) = Len(vs) + 1
      BY <1>6, <2>1
    <2>3. Good(Entry(g, vs, b))
      BY <1>1, <2>1, <2>2
    <2> QED
      BY <2>3 DEF vs
  <1> QED
    BY <1>2, <1>3, <1>4, <1>5, <1>6

\* Every entry of vCommands is a good one.
LEMMA Table == \A c \in Commands : Good(vCommands[c])
  <1> DEFINE G == GoodVariables
  <1>w. /\ {"newpassword", "source", "decrypt", "salt", "encrypt", "filename", "type", "data"}
              \subseteq NameWords
        /\ {"keypath", "changekeypath", "name", "mode", "operation"} \subseteq NameWords
        /\ {"create", "no", "backup.dat", "transaction", "true", "encrypt"} \subseteq DefaultWords
        /\ {4, 6, 7, 8, 9, 11, 13} \subseteq 1..13
        /\ {2, 4, 6, 7, 10, 11} \subseteq 1..11
    BY DEF NameWords, DefaultWords
  <1>v. /\ Mandatory(Word("newpassword", 11)) \in G
        /\ Default(Word("source", 6), Word("create", 6)) \in G
        /\ Default(Word("decrypt", 7), Word("no", 2)) \in G
        /\ Plain(Word("salt", 4)) \in G
        /\ Default(Word("encrypt", 7), Word("no", 2)) \in G
        /\ Default(Word("filename", 8), Word("backup.dat", 10)) \in G
        /\ Default(Word("type", 4), Word("transaction", 11)) \in G
        /\ Mandatory(Word("data", 4)) \in G
        /\ Keypath \in G
        /\ Mandatory(Word("changekeypath", 13)) \in G
        /\ Mandatory(Word("name", 4)) \in G
        /\ Default(Word("mode", 4), Word("true", 4)) \in G
        /\ Default(Word("operation", 9), Word("create", 6)) \in G
        /\ Default(Word("type", 4), Word("encrypt", 7)) \in G
    BY <1>w, GoodVariable, ZenonT(60) DEF Keypath
  <1>1. Good(Entry(<<23>>, <<>>, FALSE))
    <2> DEFINE g == <<23>>
    <2>1. g \in Seq(Nat) /\ Len(g) = 1 /\ g[1] > 0
      OBVIOUS
    <2> HIDE DEF g
    <2>2. Good(Entry(g, <<>>, FALSE))
      BY <1>v, <2>1, GoodEntry
    <2> QED
      BY <2>2 DEF g
  <1>2. Good(Entry(<<15, 2>>, <<Mandatory(Word("newpassword", 11))>>, FALSE))
    <2> DEFINE g == <<15, 2>>
    <2>1. g \in Seq(Nat) /\ Len(g) = 2 /\ g[1] > 0
      OBVIOUS
    <2> HIDE DEF g
    <2>2. Good(Entry(g, <<Mandatory(Word("newpassword", 11))>>, FALSE))
      BY <1>v, <2>1, GoodEntry
    <2> QED
      BY <2>2 DEF g
  <1>3. Good(Entry(<<18>>, <<>>, TRUE))
    <2> DEFINE g == <<18>>
    <2>1. g \in Seq(Nat) /\ Len(g) = 1 /\ g[1] > 0
      OBVIOUS
    <2> HIDE DEF g
    <2>2. Good(Entry(g, <<>>, TRUE))
      BY <1>v, <2>1, GoodEntry
    <2> QED
      BY <2>2 DEF g
  <1>4. Good(Entry(<<22, 14, 12, 4>>, <<Default(Word("source", 6), Word("create", 6)),
        Default(Word("decrypt", 7), Word("no", 2)), Plain(Word("salt", 4))>>, TRUE))
    <2> DEFINE g == <<22, 14, 12, 4>>
    <2>1. g \in Seq(Nat) /\ Len(g) = 4 /\ g[1] > 0
      OBVIOUS
    <2> HIDE DEF g
    <2>2. Good(Entry(g, <<Default(Word("source", 6), Word("create", 6)),
          Default(Word("decrypt", 7), Word("no", 2)), Plain(Word("salt", 4))>>, TRUE))
      BY <1>v, <2>1, GoodEntry
    <2> QED
      BY <2>2 DEF g
  <1>5. Good(Entry(<<19>>, <<>>, TRUE))
    <2> DEFINE g == <<19>>
    <2>1. g \in Seq(Nat) /\ Len(g) = 1 /\ g[1] > 0
      OBVIOUS
    <2> HIDE DEF g
    <2>2. Good(Entry(g, <<>>, TRUE))
      BY <1>v, <2>1, GoodEntry
    <2> QED
      BY <2>2 DEF g
  <1>6. Good(Entry(<<20>>, <<>>, TRUE))
    <2> DEFINE g == <<20>>
    <2>1. g \in Seq(Nat) /\ Len(g) = 1 /\ g[1] > 0
      OBVIOUS
    <2> HIDE DEF g
    <2>2. Good(Entry(g, <<>>, TRUE))
      BY <1>v, <2>1, GoodEntry
    <2> QED
      BY <2>2 DEF g
  <1>7. Good(Entry(<<25, 15, 3>>, <<Default(Word("encrypt", 7), Word("no", 2)),
        Default(Word("filename", 8), Word("backup.dat", 10))>>, TRUE))
    <2> DEFINE g == <<25, 15, 3>>
    <2>1. g \in Seq(Nat) /\ Len(g) = 3 /\ g[1] > 0
      OBVIOUS
    <2> HIDE DEF g
    <2>2. Good(Entry(g, <<Default(Word("encrypt", 7), Word("no", 2)),
          Default(Word("filename", 8), Word("backup.dat", 10))>>, TRUE))
      BY <1>v, <2>1, GoodEntry
    <2> QED
      BY <2>2 DEF g
  <1>8. Good(Entry(<<20, 11, 14, 21, 3>>,
        <<Default(Word("type", 4), Word("transaction", 11)), Mandatory(Word("data", 4)),
              Keypath, Mandatory(Word("changekeypath", 13))>>, TRUE))
    <2> DEFINE g == <<20, 11, 14, 21, 3>>
    <2>1. g \in Seq(Nat) /\ Len(g) = 5 /\ g[1] > 0
      OBVIOUS
    <2> HIDE DEF g
    <2>2. Good(Entry(g, <<Default(Word("type", 4), Word("transaction", 11)),
          Mandatory(Word("data", 4)), Keypath, Mandatory(Word("changekeypath", 13))>>, TRUE))
      BY <1>v, <2>1, GoodEntry
    <2> QED
      BY <2>2 DEF g
  <1>9. Good(Entry(<<11, 2>>, <<Keypath>>, TRUE))
    <2> DEFINE g == <<11, 2>>
    <2>1. g \in Seq(Nat) /\ Len(g) = 2 /\ g[1] > 0
      OBVIOUS
    <2> HIDE DEF g
    <2>2. Good(Entry(g, <<Keypath>>, TRUE))
      BY <1>v, <2>1, GoodEntry
    <2> QED
      BY <2>2 DEF g
  <1>10. Good(Entry(<<11, 2>>, <<Mandatory(Word("name", 4))>>, TRUE))
    <2> DEFINE g == <<11, 2>>
    <2>1. g \in Seq(Nat) /\ Len(g) = 2 /\ g[1] > 0
      OBVIOUS
    <2> HIDE DEF g
    <2>2. Good(Entry(g, <<Mandatory(Word("name", 4))>>, TRUE))
      BY <1>v, <2>1, GoodEntry
    <2> QED
      BY <2>2 DEF g
  <1>11. Good(Entry(<<13, 2>>, <<Default(Word("mode", 4), Word("true", 4))>>, TRUE))
    <2> DEFINE g == <<13, 2>>
    <2>1. g \in Seq(Nat) /\ Len(g) = 2 /\ g[1] > 0
      OBVIOUS
    <2> HIDE DEF g
    <2>2. Good(Entry(g, <<Default(Word("mode", 4), Word("true", 4))>>, TRUE))
      BY <1>v, <2>1, GoodEntry
    <2> QED
      BY <2>2 DEF g
  <1>12. Good(Entry(<<21>>, <<>>, TRUE))
    <2> DEFINE g == <<21>>
    <2>1. g \in Seq(Nat) /\ Len(g) = 1 /\ g[1] > 0
      OBVIOUS
    <2> HIDE DEF g
    <2>2. Good(Entry(g, <<>>, TRUE))
      BY <1>v, <2>1, GoodEntry
    <2> QED
      BY <2>2 DEF g
  <1>13. Good(Entry(<<22>>, <<>>, TRUE))
    <2> DEFINE g == <<22>>
    <2>1. g \in Seq(Nat) /\ Len(g) = 1 /\ g[1] > 0
      OBVIOUS
    <2> HIDE DEF g
    <2>2. Good(Entry(g, <<>>, TRUE))
      BY <1>v, <2>1, GoodEntry
    <2> QED
      BY <2>2 DEF g
  <1>14. Good(Entry(<<19>>, <<>>, TRUE))
    <2> DEFINE g == <<19>>
    <2>1. g \in Seq(Nat) /\ Len(g) = 1 /\ g[1] > 0
      OBVIOUS
    <2> HIDE DEF g
    <2>2. Good(Entry(g, <<>>, TRUE))
      BY <1>v, <2>1, GoodEntry
    <2> QED
      BY <2>2 DEF g
  <1>15. Good(Entry(<<17, 2>>, <<Default(Word("operation", 9), Word("create", 6))>>, TRUE))
    <2> DEFINE g == <<17, 2>>
    <2>1. g \in Seq(Nat) /\ Len(g) = 2 /\ g[1] > 0
      OBVIOUS
    <2> HIDE DEF g
    <2>2. Good(Entry(g, <<Default(Word("operation", 9), Word("create", 6))>>, TRUE))
      BY <1>v, <2>1, GoodEntry
    <2> QED
      BY <2>2 DEF g
  <1>16. Good(Entry(<<25, 11, 3>>, <<Default(Word("type", 4), Word("encrypt", 7)),
        Mandatory(Word("data", 4))>>, TRUE))
    <2> DEFINE g == <<25, 11, 3>>
    <2>1. g \in Seq(Nat) /\ Len(g) = 3 /\ g[1] > 0
      OBVIOUS
    <2> HIDE DEF g
    <2>2. Good(Entry(g, <<Default(Word("type", 4), Word("encrypt", 7)),
          Mandatory(Word("data", 4))>>, TRUE))
      BY <1>v, <2>1, GoodEntry
    <2> QED
      BY <2>2 DEF g
  <1>c. Commands = {"erase", "password", "led", "seed", "backuplist", "backuperase", "backup",
        "sign", "xpub", "name", "random", "sn", "version", "lock", "verifypass", "aes"}
    BY DEF Commands, vCommands
  <1>e. ASSUME NEW c \in Commands PROVE Good(vCommands[c])
    <2>1. CASE c = "erase"
      BY <1>1, <2>1 DEF vCommands
    <2>2. CASE c = "password"
      BY <1>2, <2>2 DEF vCommands
    <2>3. CASE c = "led"
      BY <1>3, <2>3 DEF vCommands
    <2>4. CASE c = "seed"
      BY <1>4, <2>4 DEF vCommands
    <2>5. CASE c = "backuplist"
      BY <1>5, <2>5 DEF vCommands
    <2>6. CASE c = "backuperase"
      BY <1>6, <2>6 DEF vCommands
    <2>7. CASE c = "backup"
      BY <1>7, <2>7 DEF vCommands
    <2>8. CASE c = "sign"
      BY <1>8, <2>8 DEF vCommands
    <2>9. CASE c = "xpub"
      BY <1>9, <2>9 DEF vCommands
    <2>10. CASE c = "name"
      BY <1>10, <2>10 DEF vCommands
    <2>11. CASE c = "random"
      BY <1>11, <2>11 DEF vCommands
    <2>12. CASE c = "sn"
      BY <1>12, <2>12 DEF vCommands
    <2>13. CASE c = "version"
      BY <1>13, <2>13 DEF vCommands
    <2>14. CASE c = "lock"
      BY <1>14, <2>14 DEF vCommands
    <2>15. CASE c = "verifypass"
      BY <1>15, <2>15 DEF vCommands
    <2>16. CASE c = "aes"
      BY <1>16, <2>16 DEF vCommands
    <2> QED
      BY <1>c, <2>1, <2>2, <2>3, <2>4, <2>5, <2>6, <2>7, <2>8, <2>9, <2>10, <2>11, <2>12,
            <2>13, <2>14, <2>15, <2>16
  <1> QED
    BY <1>e

-----------------------------------------------------------------------------
(***************************************************************************)
(* Words, and the cells of joined texts.                                   *)
(***************************************************************************)
\* Cells that are none of the signs the scan looks for.
Letters == Cells \ {"%", "|", "!"}

\* A function on 1..n is a sequence of length n.
LEMMA FunctionIsSeq ==
  ASSUME NEW S, NEW n \in Nat, NEW t \in [1..n -> S]
  PROVE  t \in Seq(S) /\ Len(t) = n
  OBVIOUS

\* A text that is not empty has a first cell.
LEMMA FirstIndex == \A n \in Nat : n > 0 => 1 \in 1..n
  OBVIOUS

\* A word has the length it is given and starts with its own cell.
LEMMA WordIsText ==
  ASSUME NEW S, NEW w \in S, "_" \in S, NEW n \in Nat
  PROVE  /\ Word(w, n) \in Seq(S) /\ Len(Word(w, n)) = n
         /\ n > 0 => Word(w, n)[1] = w
  <1> DEFINE t == Word(w, n)
  <1>1. t = [i \in 1..n |-> IF i = 1 THEN w ELSE "_"]
    BY DEF Word
  <1> HIDE DEF t
  <1>2. t \in [1..n -> S]
    BY <1>1
  <1>3. t \in Seq(S) /\ Len(t) = n
    BY <1>2, FunctionIsSeq
  <1>4. n > 0 => t[1] = w
    <2>1. n > 0 => 1 \in 1..n
      BY FirstIndex, Zenon
    <2> QED
      BY <1>1, <2>1, Zenon
  <1> QED
    BY <1>3, <1>4 DEF t

\* Names are not empty, and neither names nor defaults contain a sign.
LEMMA VariableFacts ==
  ASSUME NEW c \in Commands, NEW i \in 1..Len(Variables(c))
  PROVE  LET v == Variables(c)[i]
         IN  /\ v.name \in Seq(Letters) /\ Len(v.name) \in 1..13
             /\ v.default \in Seq(Letters) /\ v.mandatory \in BOOLEAN
  <1> DEFINE v == Variables(c)[i]
  <1>1. v \in GoodVariables
    <2>1. Variables(c) \in Seq(GoodVariables)
      BY Table DEF Good, Variables
    <2> QED
      BY <2>1, ElementOfSeq
  <1>2. PICK name \in NameTexts, default \in DefaultTexts, mandatory \in BOOLEAN :
            v = Variable(name, default, mandatory)
    BY <1>1 DEF GoodVariables
  <1>3. v.name = name /\ v.default = default /\ v.mandatory = mandatory
    BY <1>2 DEF Variable
  <1>4. PICK w \in NameWords, n \in 1..13 : name = Word(w, n)
    BY DEF NameTexts
  <1>5. "_" \in Letters /\ DefaultWords \subseteq Letters
    <2>1. "_" \in Cells
      BY Zenon DEF Cells
    <2>2. DefaultWords \subseteq Cells
      <3>1. Cells = ({"%", "|", "!", ".", "_", "raw", "value", "password"}
                      \cup UNION {{Variables(d)[k].name[1]
                            : k \in DOMAIN Variables(d)} : d \in Commands})
                    \cup DefaultWords
        BY Zenon DEF Cells, DefaultWords
      <3> QED
        BY <3>1, Zenon
    <2>3. "_" \notin {"%", "|", "!"} /\ DefaultWords \cap {"%", "|", "!"} = {}
      BY DEF DefaultWords
    <2> QED
      BY <2>1, <2>2, <2>3 DEF Letters
  <1>6. w \in Letters
    <2>1. name[1] = w
      <3>1. n \in Nat /\ n > 0
        OBVIOUS
      <3>2. {w, "_"} \subseteq {w, "_"} /\ w \in {w, "_"} /\ "_" \in {w, "_"}
        OBVIOUS
      <3> QED
        BY <1>4, <3>1, <3>2, WordIsText
    <2>2. name[1] \in Cells
      <3>1. v.name[1] \in UNION {{Variables(d)[k].name[1]
            : k \in DOMAIN Variables(d)} : d \in Commands}
        <4>1. i \in DOMAIN Variables(c)
          BY Table, LenProperties DEF Good, Variables
        <4> QED
          BY <4>1
      <3> QED
        BY <1>3, <3>1 DEF Cells
    <2>3. w \notin {"%", "|", "!"}
      BY DEF NameWords
    <2> QED
      BY <2>1, <2>2, <2>3 DEF Letters
  <1>7. name \in Seq(Letters) /\ Len(name) = n
    <2>1. n \in Nat
      OBVIOUS
    <2> QED
      BY <1>4, <1>5, <1>6, <2>1, WordIsText
  <1>8. default \in Seq(Letters)
    <2>1. CASE default = <<>>
      BY <2>1
    <2>2. CASE \E x \in DefaultWords, k \in 1..11 : default = Word(x, k)
      <3>1. PICK x \in DefaultWords, k \in 1..11 : default = Word(x, k)
        BY <2>2
      <3>2. x \in Letters
        BY <1>5
      <3>3. k \in Nat
        OBVIOUS
      <3> QED
        BY <1>5, <3>1, <3>2, <3>3, WordIsText
    <2> QED
      BY <2>1, <2>2 DEF DefaultTexts
  <1> QED
    BY <1>3, <1>7, <1>8

\* The cells of a text behind another.
LEMMA ConcatCells ==
  ASSUME NEW S, NEW s \in Seq(S), NEW t \in Seq(S)
  PROVE  /\ s \o t \in Seq(S) /\ Len(s \o t) = Len(s) + Len(t)
         /\ Len(s) \in Nat /\ Len(t) \in Nat
         /\ \A i \in 1..Len(s) : (s \o t)[i] = s[i]
         /\ \A i \in 1..Len(t) : (s \o t)[Len(s) + i] = t[i]
  <1>1. Len(s) \in Nat /\ Len(t) \in Nat
    BY LenProperties
  <1>2. /\ s \o t \in Seq(S) /\ Len(s \o t) = Len(s) + Len(t)
        /\ \A i \in 1 .. Len(s) + Len(t) : (s \o t)[i] = IF i <= Len(s) THEN s[i] ELSE t[i - Len(s)]
    BY ConcatProperties
  <1> DEFINE m == Len(s)
             n == Len(t)
             u == s \o t
  <1> HIDE DEF m, n, u
  <1>3. \A i \in 1..m : u[i] = s[i]
    <2> SUFFICES ASSUME NEW i \in 1..m PROVE u[i] = s[i]
      OBVIOUS
    <2>1. i \in 1..m + n /\ i <= m
      BY <1>1 DEF m, n
    <2> QED
      BY <1>2, <2>1 DEF m, n, u
  <1>4. \A i \in 1..n : u[m + i] = t[i]
    <2> SUFFICES ASSUME NEW i \in 1..n PROVE u[m + i] = t[i]
      OBVIOUS
    <2>1. m + i \in 1..m + n /\ ~(m + i <= m) /\ (m + i) - m = i
      BY <1>1 DEF m, n
    <2> QED
      BY <1>2, <2>1 DEF m, n, u
  <1> QED
    BY <1>1, <1>2, <1>3, <1>4 DEF m, n, u

\* What is between two places of a text behind another.
LEMMA PartOfConcat ==
  ASSUME NEW S, NEW s \in Seq(S), NEW t \in Seq(S), NEW i \in 1..Len(t) + 1, NEW j \in 0..Len(t)
  PROVE  SubSeq(s \o t, Len(s) + i, Len(s) + j) = SubSeq(t, i, j)
  <1>1. Len(s) \in Nat /\ Len(t) \in Nat
    BY LenProperties
  <1>2. CASE j < i
    <2>1. SubSeq(t, i, j) = <<>>
      BY <1>1, <1>2, SubSeqEmpty
    <2>2. SubSeq(s \o t, Len(s) + i, Len(s) + j) = <<>>
      BY <1>1, <1>2, SubSeqEmpty
    <2> QED
      BY <2>1, <2>2
  <1>3. CASE i <= j
    <2> DEFINE m == Len(s)
               n == Len(t)
    <2>1. m \in Nat /\ n \in Nat
      BY <1>1
    <2> HIDE DEF m, n
    <2>2. /\ m + i \in m + 1..m + n /\ m + j \in m + 1..m + n
          /\ (m + i) - m = i /\ (m + j) - m = j
      BY <1>3, <2>1 DEF n
    <2> QED
      BY <2>2, SubSeqOfConcat2 DEF m, n
  <1> QED
    BY <1>1, <1>2, <1>3

\* What a joined text starts with.
LEMMA StartOfConcat ==
  ASSUME NEW S, NEW s \in Seq(S), NEW t \in Seq(S)
  PROVE  SubSeq(s \o t, 1, Len(s)) = s
  <1>1. Len(s) \in Nat
    BY LenProperties
  <1>2. CASE Len(s) = 0
    <2>1. s = <<>> /\ SubSeq(s \o t, 1, 0) = <<>>
      BY <1>2, SubSeqEmpty
    <2> QED
      BY <1>2, <2>1
  <1>3. CASE Len(s) > 0
    <2>1. 1 \in 1..Len(s) /\ Len(s) \in 1..Len(s)
      BY <1>1, <1>3
    <2>2. SubSeq(s \o t, 1, Len(s)) = SubSeq(s, 1, Len(s))
      BY <2>1, SubSeqOfConcat1
    <2> QED
      BY <2>2, SubSeqFull
  <1> QED
    BY <1>1, <1>2, <1>3

\* FlattenSeq joins its sequences one by one.
LEMMA Flattened ==
  ASSUME NEW n \in Nat \ {0}, NEW seqs, Len(seqs) = n
  PROVE  \E f : /\ f[1] = seqs[1]
                /\ \A i \in 2..n : f[i] = f[i - 1] \o seqs[i]
                /\ FlattenSeq(seqs) = f[n]
  <1> DEFINE rec(f) == f = [i \in 1..n |-> IF i = 1 THEN seqs[i] ELSE f[i - 1] \o seqs[i]]
             chain(f, m) == /\ f = [i \in 1..n |-> f[i]]
                            /\ f[1] = seqs[1]
                            /\ \A i \in 2..m : f[i] = f[i - 1] \o seqs[i]
             S == {m \in 0..n : \E f : chain(f, m)}
  <1>1. 0 \in S
    <2> DEFINE z == [i \in 1..n |-> seqs[1]]
    <2>1. z = [i \in 1..n |-> z[i]] /\ z[1] = seqs[1] /\ 2..0 = {} /\ 0 \in 0..n
      OBVIOUS
    <2> HIDE DEF z
    <2> QED
      BY <2>1
  <1>2. ASSUME NEW m \in 0..n, m \in S, m < n PROVE m + 1 \in S
    <2>1. PICK f : chain(f, m)
      BY <1>2
    <2> DEFINE b == IF m = 0 THEN seqs[1] ELSE f[m] \o seqs[m + 1]
               d == [i \in 1..n |-> IF i = m + 1 THEN b ELSE f[i]]
    <2>2. /\ d = [i \in 1..n |-> d[i]] /\ d[m + 1] = b
          /\ \A i \in 1..m : d[i] = f[i]
      <3>1. m + 1 \in 1..n /\ \A i \in 1..m : i \in 1..n /\ i # m + 1
        BY <1>2
      <3> HIDE DEF b
      <3> QED
        BY <3>1
    <2> HIDE DEF d
    <2>3. d[1] = seqs[1]
      <3>1. CASE m = 0
        BY <2>2, <3>1
      <3>2. CASE m # 0
        <4>1. 1 \in 1..m
          BY <3>2
        <4> QED
          BY <2>1, <2>2, <4>1
      <3> QED
        BY <3>1, <3>2
    <2>4. ASSUME NEW i \in 2..m + 1 PROVE d[i] = d[i - 1] \o seqs[i]
      <3>1. CASE i = m + 1
        <4>1. m # 0 /\ m \in 1..m /\ i - 1 = m
          BY <3>1
        <4>2. d[m + 1] = f[m] \o seqs[m + 1] /\ d[m] = f[m]
          BY <2>2, <4>1
        <4> QED
          BY <3>1, <4>1, <4>2
      <3>2. CASE i \in 2..m
        <4>1. i \in 1..m /\ i - 1 \in 1..m
          BY <3>2
        <4>2. f[i] = f[i - 1] \o seqs[i]
          BY <2>1, <3>2
        <4> QED
          BY <2>2, <4>1, <4>2
      <3>3. i = m + 1 \/ i \in 2..m
        OBVIOUS
      <3> HIDE DEF S
      <3> QED
        BY <3>1, <3>2, <3>3
    <2>5. m + 1 \in 0..n
      BY <1>2
    <2> QED
      BY <2>2, <2>3, <2>4, <2>5
  <1>3. PICK f : chain(f, n)
    <2> HIDE DEF S
    <2>1. 0..n \subseteq S
      BY <1>1, <1>2, BoundedInduction
    <2>2. n \in S
      BY <2>1
    <2> QED
      BY <2>2 DEF S
  <1>4. rec(f)
    <2>1. \A i \in 1..n : f[i] = IF i = 1 THEN seqs[i] ELSE f[i - 1] \o seqs[i]
      <3> SUFFICES ASSUME NEW i \in 1..n
                   PROVE  f[i] = IF i = 1 THEN seqs[i] ELSE f[i - 1] \o seqs[i]
        OBVIOUS
      <3>1. CASE i = 1
        BY <1>3, <3>1
      <3>2. CASE i \in 2..n
        BY <1>3, <3>2
      <3> QED
        BY <3>1, <3>2
    <2>2. f = [i \in 1..n |-> f[i]]
      BY <1>3
    <2> QED
      BY <2>1, <2>2
  <1> DEFINE w == CHOOSE u : rec(u)
  <1>5. rec(w)
    BY <1>4
  <1>6. FlattenSeq(seqs) = w[n]
    <2>1. n # 0
      OBVIOUS
    <2> QED
      BY <2>1 DEF FlattenSeq
  <1> HIDE DEF w
  <1>7. \A i \in 1..n : w[i] = IF i = 1 THEN seqs[i] ELSE w[i - 1] \o seqs[i]
    BY <1>5
  <1>8. w[1] = seqs[1] /\ \A i \in 2..n : w[i] = w[i - 1] \o seqs[i]
    <2>1. 1 \in 1..n /\ \A i \in 2..n : i \in 1..n /\ i # 1
      OBVIOUS
    <2> QED
      BY <1>7, <2>1
  <1> QED
    BY <1>6, <1>8

\* FlattenSeq of one sequence more.
LEMMA FlattenMore ==
  ASSUME NEW S, NEW n \in Nat, NEW s \in [1..n + 1 -> Seq(S)]
  PROVE  /\ FlattenSeq([k \in 1..n |-> s[k]]) \in Seq(S)
         /\ FlattenSeq([k \in 1..n + 1 |-> s[k]]) = FlattenSeq([k \in 1..n |-> s[k]]) \o s[n + 1]
  <1> DEFINE r == [k \in 1..n |-> s[k]]
             t == [k \in 1..n + 1 |-> s[k]]
  <1>1. /\ Len(r) = n /\ Len(t) = n + 1
        /\ \A k \in 1..n : r[k] = s[k] /\ t[k] = s[k]
        /\ t[n + 1] = s[n + 1]
        /\ \A k \in 1..n + 1 : s[k] \in Seq(S)
    <2>1. r \in [1..n -> Seq(S)] /\ t \in [1..n + 1 -> Seq(S)]
      OBVIOUS
    <2>2. Len(r) = n /\ Len(t) = n + 1
      BY <2>1, FunctionIsSeq
    <2>3. \A k \in 1..n : k \in 1..n + 1
      OBVIOUS
    <2>4. n + 1 \in 1..n + 1
      OBVIOUS
    <2> QED
      BY <2>2, <2>3, <2>4
  <1> HIDE DEF t
  <1>2. CASE n = 0
    <2>1. FlattenSeq(r) = <<>>
      <3>1. Len(r) = 0 /\ r = <<>>
        BY <1>2
      <3> QED
        BY <3>1 DEF FlattenSeq
    <2> HIDE DEF r
    <2>2. n + 1 \in Nat \ {0}
      OBVIOUS
    <2>7. Len(t) = n + 1
      BY <1>1
    <2>3. PICK f : /\ f[1] = t[1]
                   /\ \A k \in 2..n + 1 : f[k] = f[k - 1] \o t[k]
                   /\ FlattenSeq(t) = f[n + 1]
      BY <2>2, <2>7, Flattened, Zenon
    <2>4. FlattenSeq(t) = s[n + 1]
      BY <1>1, <1>2, <2>3
    <2>5. s[n + 1] \in Seq(S) /\ <<>> \in Seq(S)
      BY <1>1, <1>2
    <2>6. <<>> \o s[n + 1] = s[n + 1]
      BY <2>5, ConcatEmptySeq
    <2> QED
      BY <2>1, <2>4, <2>5, <2>6 DEF r, t
  <1>3. CASE n # 0
    <2> HIDE DEF r
    <2>1. n \in Nat \ {0} /\ n + 1 \in Nat \ {0}
      BY <1>3
    <2>9. Len(r) = n
      BY <1>1
    <2>10. Len(t) = n + 1
      BY <1>1
    <2>12. n \in Nat \ {0}
      BY <2>1
    <2>11. n + 1 \in Nat \ {0}
      BY <2>1
    <2>2. PICK f : /\ f[1] = r[1]
                   /\ \A k \in 2..n : f[k] = f[k - 1] \o r[k]
                   /\ FlattenSeq(r) = f[n]
      BY <2>9, <2>12, Flattened, Zenon
    <2>3. PICK g : /\ g[1] = t[1]
                   /\ \A k \in 2..n + 1 : g[k] = g[k - 1] \o t[k]
                   /\ FlattenSeq(t) = g[n + 1]
      BY <2>10, <2>11, Flattened, Zenon
    <2> DEFINE A == {m \in 0..n - 1 : f[m + 1] = g[m + 1] /\ f[m + 1] \in Seq(S)}
    <2>4. 0 \in A
      <3>1. 1 \in 1..n /\ 0 \in 0..n - 1
        BY <2>1
      <3> QED
        BY <1>1, <2>2, <2>3, <3>1
    <2>5. ASSUME NEW m \in 0..n - 1, m \in A, m < n - 1 PROVE m + 1 \in A
      <3>1. /\ m + 2 \in 2..n /\ m + 2 \in 2..n + 1 /\ m + 2 \in 1..n /\ m + 1 \in 0..n - 1
            /\ (m + 2) - 1 = m + 1 /\ (m + 1) + 1 = m + 2 /\ m + 2 \in 1..n + 1
        BY <2>5
      <3>2. f[m + 2] = f[m + 1] \o s[m + 2] /\ g[m + 2] = g[m + 1] \o s[m + 2]
        BY <1>1, <2>2, <2>3, <3>1
      <3>3. f[m + 1] = g[m + 1] /\ f[m + 1] \in Seq(S)
        BY <2>5
      <3>4. f[m + 1] \o s[m + 2] \in Seq(S)
        BY <1>1, <3>1, <3>3, ConcatProperties
      <3> QED
        BY <3>1, <3>2, <3>3, <3>4
    <2>6. n - 1 \in A
      <3>1. n - 1 \in Nat
        BY <2>1
      <3> HIDE DEF A
      <3>2. 0..n - 1 \subseteq A
        BY <2>4, <2>5, <3>1, BoundedInduction
      <3> QED
        BY <3>1, <3>2
    <2>7. f[n] = g[n] /\ f[n] \in Seq(S)
      <3>1. (n - 1) + 1 = n
        OBVIOUS
      <3> QED
        BY <2>6, <3>1
    <2>8. g[n + 1] = g[n] \o s[n + 1]
      <3>1. n + 1 \in 2..n + 1 /\ (n + 1) - 1 = n
        BY <2>1
      <3> QED
        BY <1>1, <2>3, <3>1
    <2> QED
      BY <2>2, <2>3, <2>7, <2>8 DEF r, t
  <1> QED
    BY <1>2, <1>3

-----------------------------------------------------------------------------
(***************************************************************************)
(* The layout of a text: fills in the place of the variables, and gaps     *)
(* between them.                                                           *)
(***************************************************************************)
\* How many variables a command has, the gaps between them, and the text up to the i-th one.
Number(c) == Len(Variables(c))
Gap(c, i) == [k \in 1..vCommands[c].gaps[i] |-> "."]
Upto(c, fills, i) == Gap(c, 1) \o FlattenSeq([k \in 1..i |-> fills[k] \o Gap(c, k + 1)])

\* No entry has more than four variables.
LEMMA Numbers ==
  ASSUME NEW c \in Commands
  PROVE  Number(c) \in 0..4 /\ DOMAIN Variables(c) = 1..Number(c)
  <1>1. Variables(c) \in Seq(GoodVariables) /\ Len(Variables(c)) \in 0..4
    BY Table DEF Good, Variables
  <1>2. DOMAIN Variables(c) = 1..Len(Variables(c))
    BY <1>1, LenProperties
  <1> QED
    BY <1>1, <1>2 DEF Number

\* A gap has none of the signs, and the first one is not empty.
LEMMA GapFacts ==
  ASSUME NEW c \in Commands, NEW i \in 1..Number(c) + 1, NEW S, "." \in S
  PROVE  /\ vCommands[c].gaps[i] \in Nat
         /\ Gap(c, i) \in Seq(S) /\ Len(Gap(c, i)) = vCommands[c].gaps[i]
         /\ \A k \in 1..Len(Gap(c, i)) : Gap(c, i)[k] = "."
         /\ i = 1 => Len(Gap(c, i)) > 0
  <1> DEFINE g == vCommands[c].gaps
  <1>1. g \in Seq(Nat) /\ Len(g) = Number(c) + 1 /\ g[1] > 0
    BY Table DEF Good, Variables, Number
  <1>2. g[i] \in Nat
    BY <1>1, ElementOfSeq
  <1> DEFINE n == g[i]
             t == [k \in 1..n |-> "."]
  <1>3. Gap(c, i) = t
    BY DEF Gap
  <1>4. n \in Nat
    BY <1>2
  <1>5. i = 1 => n > 0
    BY <1>1
  <1> HIDE DEF n
  <1>6. t \in [1..n -> S] /\ \A k \in 1..n : t[k] = "."
    OBVIOUS
  <1> HIDE DEF t
  <1>7. t \in Seq(S) /\ Len(t) = n
    BY <1>4, <1>6, FunctionIsSeq
  <1> QED
    BY <1>3, <1>4, <1>5, <1>6, <1>7 DEF n

\* A text grows by what is in the place of the next variable and the gap behind it.
LEMMA UptoSteps ==
  ASSUME NEW c \in Commands, NEW S, "." \in S, NEW fills \in [1..Number(c) -> Seq(S)]
  PROVE  /\ Upto(c, fills, 0) = Gap(c, 1)
         /\ \A i \in 0..Number(c) : Upto(c, fills, i) \in Seq(S)
         /\ \A i \in 0..Number(c) - 1 :
              Upto(c, fills, i + 1) = Upto(c, fills, i) \o (fills[i + 1] \o Gap(c, i + 2))
  <1> DEFINE n == Number(c)
             s(i) == [k \in 1..i |-> fills[k] \o Gap(c, k + 1)]
  <1>n. n \in Nat
    BY Numbers
  <1> HIDE DEF n
  <1>1. /\ Gap(c, 1) \in Seq(S)
        /\ \A k \in 1..n : fills[k] \in Seq(S) /\ Gap(c, k + 1) \in Seq(S)
    <2>1. 1 \in 1..n + 1 /\ \A k \in 1..n : k + 1 \in 1..n + 1
      BY <1>n
    <2> QED
      BY <2>1, GapFacts DEF n
  <1>2. \A k \in 1..n : fills[k] \o Gap(c, k + 1) \in Seq(S)
    BY <1>1, ConcatProperties
  <1>3. Upto(c, fills, 0) = Gap(c, 1)
    <2>1. s(0) = <<>> /\ Len(s(0)) = 0
      OBVIOUS
    <2>2. FlattenSeq(s(0)) = <<>>
      BY <2>1 DEF FlattenSeq
    <2>3. Gap(c, 1) \o <<>> = Gap(c, 1)
      BY <1>1, ConcatEmptySeq
    <2> QED
      BY <2>2, <2>3 DEF Upto
  <1>4. ASSUME NEW i \in 0..n - 1
        PROVE  /\ Upto(c, fills, i) \in Seq(S) /\ Upto(c, fills, i + 1) \in Seq(S)
               /\ Upto(c, fills, i + 1) = Upto(c, fills, i) \o (fills[i + 1] \o Gap(c, i + 2))
    <2>1. i \in Nat /\ i + 1 \in 1..n
      BY <1>n
    <2> DEFINE t == s(i + 1)
               x == fills[i + 1] \o Gap(c, i + 2)
               a == FlattenSeq(s(i))
               g == Gap(c, 1)
    <2>2. t \in [1..i + 1 -> Seq(S)] /\ t[i + 1] = x
      <3>1. \A k \in 1..i + 1 : k \in 1..n
        BY <1>n
      <3>2. i + 1 \in 1..i + 1 /\ (i + 1) + 1 = i + 2
        BY <2>1
      <3>3. \A k \in 1..i + 1 : t[k] = fills[k] \o Gap(c, k + 1)
        OBVIOUS
      <3>4. \A k \in 1..i + 1 : t[k] \in Seq(S)
        BY <1>2, <3>1, <3>3
      <3>5. t \in [1..i + 1 -> Seq(S)]
        BY <3>4
      <3>6. t[i + 1] = x
        BY <3>2, <3>3
      <3> QED
        BY <3>5, <3>6
    <2>3. [k \in 1..i |-> t[k]] = s(i) /\ [k \in 1..i + 1 |-> t[k]] = t
      <3>1. \A k \in 1..i : k \in 1..i + 1
        BY <2>1
      <3> QED
        BY <3>1
    <2> HIDE DEF t
    <2>4. FlattenSeq([k \in 1..i |-> t[k]]) \in Seq(S)
          /\ FlattenSeq([k \in 1..i + 1 |-> t[k]]) = FlattenSeq([k \in 1..i |-> t[k]]) \o t[i + 1]
      BY <2>1, <2>2, FlattenMore
    <2>5. a \in Seq(S) /\ FlattenSeq(t) = a \o x
      BY <2>2, <2>3, <2>4
    <2>6. x \in Seq(S) /\ g \in Seq(S)
      <3>1. (i + 1) + 1 = i + 2
        BY <2>1
      <3> QED
        BY <1>1, <1>2, <2>1, <3>1
    <2>7. Upto(c, fills, i) = g \o a /\ Upto(c, fills, i + 1) = g \o FlattenSeq(t)
      BY DEF Upto, t
    <2> HIDE DEF a, x, g
    <2>8. g \o (a \o x) = (g \o a) \o x
      BY <2>5, <2>6, ConcatAssociative
    <2>9. g \o a \in Seq(S) /\ (g \o a) \o x \in Seq(S)
      BY <2>5, <2>6, ConcatProperties
    <2> QED
      BY <2>5, <2>7, <2>8, <2>9 DEF x
  <1>5. ASSUME NEW i \in 0..n PROVE Upto(c, fills, i) \in Seq(S)
    <2>1. CASE i = 0
      BY <1>1, <1>3, <2>1
    <2>2. CASE i # 0
      <3>1. i - 1 \in 0..n - 1 /\ (i - 1) + 1 = i
        BY <1>n, <2>2
      <3> QED
        BY <1>4, <3>1
    <2> QED
      BY <2>1, <2>2
  <1> QED
    BY <1>3, <1>4, <1>5 DEF n

\* What stands before a variable depends on the variables before it.
LEMMA UptoAgrees ==
  ASSUME NEW c, NEW f, NEW g, NEW i \in Nat, \A k \in 1..i : f[k] = g[k]
  PROVE  Upto(c, f, i) = Upto(c, g, i)
  <1>1. [k \in 1..i |-> f[k] \o Gap(c, k + 1)] = [k \in 1..i |-> g[k] \o Gap(c, k + 1)]
    OBVIOUS
  <1> QED
    BY <1>1, Zenon DEF Upto

\* The whole text is the text up to its last variable, and the gap behind it.
LEMMA FilledIsUpto ==
  ASSUME NEW c \in Commands, NEW S, NEW fills \in [1..Number(c) -> S]
  PROVE  Filled(c, fills) = Upto(c, fills, Number(c))
  <1>1. DOMAIN fills = 1..Number(c)
    OBVIOUS
  <1> QED
    BY <1>1, Zenon DEF Filled, Upto, Gap

\* Another text in the place of the i-th variable.
Put(fills, i, x) == [fills EXCEPT ![i] = x]

\* There is one text behind the variable i + 1 for all that may stand in its place.
Dividing(c, S, fills, i) ==
    \E rest \in Seq(S) : \A x \in Seq(S) :
        Filled(c, Put(fills, i + 1, x)) = (Upto(c, fills, i) \o x) \o rest

\* The text around a variable does not depend on what is put in its place.
LEMMA Divides ==
  ASSUME NEW c \in Commands, NEW S, "." \in S, NEW fills \in [1..Number(c) -> Seq(S)],
         NEW i \in 0..Number(c) - 1
  PROVE  Dividing(c, S, fills, i)
  <1> DEFINE n == Number(c)
             m == n - (i + 1)
             with(x) == [fills EXCEPT ![i + 1] = x]
             u == Upto(c, fills, i)
             A == {k \in 0..m : \E rest \in Seq(S) : \A x \in Seq(S) :
                                   Upto(c, with(x), i + 1 + k) = (u \o x) \o rest}
  <1>n. n \in Nat
    BY Numbers
  <1>m. m \in Nat /\ i \in Nat /\ i + 1 \in 1..n /\ i + 1 + m = n
    BY <1>n DEF n
  <1>1. \A x \in Seq(S) : with(x) \in [1..n -> Seq(S)] /\ with(x)[i + 1] = x
    BY <1>m
  <1>2. \A x \in Seq(S), k \in 1..n : k # i + 1 => with(x)[k] = fills[k]
    OBVIOUS
  <1>g. \A k \in 1..n + 1 : Gap(c, k) \in Seq(S)
    BY GapFacts DEF n
  <1>f. \A k \in 1..n : fills[k] \in Seq(S)
    BY DEF n
  <1>u. u \in Seq(S)
    <2>1. i \in 0..Number(c)
      BY <1>m, <1>n DEF n
    <2> QED
      BY <2>1, UptoSteps
  <1>3. ASSUME NEW x \in Seq(S) PROVE Upto(c, with(x), i) = u
    <2>1. \A k \in 1..i : with(x)[k] = fills[k]
      <3>1. \A k \in 1..i : k \in 1..n /\ k # i + 1
        BY <1>m
      <3> QED
        BY <1>2, <3>1
    <2> HIDE DEF with
    <2> QED
      BY <1>m, <2>1, UptoAgrees
  <1>4. \A x \in Seq(S) : \A k \in 0..n - 1 :
            Upto(c, with(x), k + 1) = Upto(c, with(x), k) \o (with(x)[k + 1] \o Gap(c, k + 2))
    <2> SUFFICES ASSUME NEW x \in Seq(S) PROVE \A k \in 0..n - 1 :
            Upto(c, with(x), k + 1) = Upto(c, with(x), k) \o (with(x)[k + 1] \o Gap(c, k + 2))
      OBVIOUS
    <2>1. with(x) \in [1..Number(c) -> Seq(S)]
      BY <1>1 DEF n
    <2> HIDE DEF with
    <2> QED
      BY <2>1, UptoSteps DEF n
  <1> HIDE DEF with, n
  <1>5. 0 \in A
    <2> DEFINE g == Gap(c, i + 2)
    <2>1. g \in Seq(S)
      <3>1. i + 2 \in 1..n + 1
        BY <1>m
      <3> QED
        BY <1>g, <3>1
    <2> HIDE DEF g
    <2>2. ASSUME NEW x \in Seq(S) PROVE Upto(c, with(x), i + 1 + 0) = (u \o x) \o g
      <3>1. i \in 0..n - 1 /\ i + 1 + 0 = i + 1
        BY <1>m
      <3>2. Upto(c, with(x), i + 1) = Upto(c, with(x), i) \o (with(x)[i + 1] \o g)
        BY <1>4, <3>1 DEF g
      <3>3. Upto(c, with(x), i + 1) = u \o (x \o g)
        BY <1>1, <1>3, <3>2
      <3> HIDE DEF u
      <3>4. u \o (x \o g) = (u \o x) \o g
        BY <1>u, <2>1, ConcatAssociative
      <3> QED
        BY <3>1, <3>3, <3>4
    <2>3. 0 \in 0..m
      BY <1>m
    <2> HIDE DEF u, m
    <2> QED
      BY <2>1, <2>2, <2>3
  <1>6. ASSUME NEW k \in 0..m, k \in A, k < m PROVE k + 1 \in A
    <2> HIDE DEF u
    <2>1. PICK rest \in Seq(S) : \A x \in Seq(S) : Upto(c, with(x), i + 1 + k) = (u \o x) \o rest
      BY <1>6
    <2> DEFINE j == i + 1 + k
               g == fills[j + 1] \o Gap(c, j + 2)
               r == rest \o g
    <2>2. /\ j \in 0..n - 1 /\ i + 1 + (k + 1) = j + 1 /\ k + 1 \in 0..m
          /\ j + 1 \in 1..n /\ j + 1 # i + 1 /\ j + 2 \in 1..n + 1
      BY <1>m, <1>n, <1>6
    <2> HIDE DEF j
    <2>3. g \in Seq(S)
      BY <1>f, <1>g, <2>2, ConcatProperties
    <2> HIDE DEF g
    <2>4. r \in Seq(S)
      BY <2>3, ConcatProperties
    <2>5. ASSUME NEW x \in Seq(S) PROVE Upto(c, with(x), i + 1 + (k + 1)) = (u \o x) \o r
      <3>1. Upto(c, with(x), j + 1) = Upto(c, with(x), j) \o g
        BY <1>2, <1>4, <2>2 DEF g
      <3>2. Upto(c, with(x), j) = (u \o x) \o rest
        BY <2>1 DEF j
      <3>3. u \o x \in Seq(S)
        BY <1>u, ConcatProperties
      <3>4. ((u \o x) \o rest) \o g = (u \o x) \o r
        <4> DEFINE y == u \o x
        <4>1. y \in Seq(S)
          BY <3>3
        <4> HIDE DEF y, g, j, with
        <4>2. (y \o rest) \o g = y \o (rest \o g)
          BY <2>3, <4>1, ConcatAssociative, SMTT(60)
        <4> QED
          BY <4>2 DEF y, r
      <3> QED
        BY <2>2, <3>1, <3>2, <3>4
    <2> HIDE DEF r, m
    <2> QED
      BY <2>2, <2>4, <2>5
  <1>7. m \in A
    <2> HIDE DEF A
    <2>1. 0..m \subseteq A
      BY <1>5, <1>6, <1>m, BoundedInduction
    <2> QED
      BY <1>m, <2>1
  <1> HIDE DEF u
  <1>8. PICK rest \in Seq(S) : \A x \in Seq(S) : Upto(c, with(x), i + 1 + m) = (u \o x) \o rest
    BY <1>7
  <1>9. ASSUME NEW x \in Seq(S) PROVE Filled(c, with(x)) = (u \o x) \o rest
    <2>1. with(x) \in [1..Number(c) -> Seq(S)]
      BY <1>1 DEF n
    <2>2. Filled(c, with(x)) = Upto(c, with(x), n)
      BY <2>1, FilledIsUpto DEF n
    <2> QED
      BY <1>8, <1>m, <2>2
  <1> QED
    BY <1>9 DEF u, with, Put, Dividing

-----------------------------------------------------------------------------
(***************************************************************************)
(* The token of a variable, and what the scan reads in it.                 *)
(***************************************************************************)
\* The place of the delimiter in a token, counted from 1, and what stands before it.
Bar(v) == 2 + (IF v.mandatory THEN 1 ELSE 0) + Len(v.name)
Named(v) == (IF v.mandatory THEN <<"!">> ELSE <<>>) \o v.name

\* The signs are cells, and no letter is a sign.
LEMMA Signs ==
  /\ "%" \in Cells /\ "|" \in Cells /\ "!" \in Cells /\ "." \in Letters /\ "value" \in Letters
  /\ Letters \subseteq Cells
  /\ \A x \in Letters : x # "%" /\ x # "|" /\ x # "!"
  <1>1. "%" \in Cells /\ "|" \in Cells /\ "!" \in Cells /\ "." \in Cells /\ "value" \in Cells
    BY Zenon DEF Cells
  <1>2. "." \notin {"%", "|", "!"} /\ "value" \notin {"%", "|", "!"}
    OBVIOUS
  <1> QED
    BY <1>1, <1>2 DEF Letters

\* What is read between two signs.
LEMMA Bracketed ==
  ASSUME NEW S, NEW b \in S, NEW body \in Seq(S)
  PROVE  LET t == (<<b>> \o body) \o <<b>>
         IN  /\ t \in Seq(S) /\ Len(t) = Len(body) + 2
             /\ t[1] = b /\ t[Len(body) + 2] = b
             /\ \A k \in 1..Len(body) : t[k + 1] = body[k]
             /\ \A i \in 1..Len(body) + 1, j \in 0..Len(body) :
                  SubSeq(t, i + 1, j + 1) = SubSeq(body, i, j)
  <1> DEFINE h == <<b>>
             l == h \o body
             t == l \o h
             n == Len(body)
  <1>1. h \in Seq(S) /\ Len(h) = 1 /\ h[1] = b
    OBVIOUS
  <1>n. n \in Nat
    BY LenProperties
  <1> HIDE DEF h
  <1>2. /\ l \in Seq(S) /\ Len(l) = 1 + n
        /\ \A k \in 1..1 : l[k] = h[k]
        /\ \A k \in 1..n : l[1 + k] = body[k]
    <2>1. h \in Seq(S)
      BY <1>1
    <2>2. /\ h \o body \in Seq(S) /\ Len(h \o body) = Len(h) + Len(body)
          /\ \A k \in 1..Len(h) : (h \o body)[k] = h[k]
          /\ \A k \in 1..Len(body) : (h \o body)[Len(h) + k] = body[k]
      BY <2>1, ConcatCells
    <2> QED
      BY <1>1, <2>2
  <1> HIDE DEF l
  <1>3. /\ t \in Seq(S) /\ Len(t) = (1 + n) + 1
        /\ \A k \in 1..1 + n : t[k] = l[k]
        /\ \A k \in 1..1 : t[(1 + n) + k] = h[k]
    <2>1. h \in Seq(S) /\ l \in Seq(S)
      BY <1>1, <1>2
    <2>2. /\ l \o h \in Seq(S) /\ Len(l \o h) = Len(l) + Len(h)
          /\ \A k \in 1..Len(l) : (l \o h)[k] = l[k]
          /\ \A k \in 1..Len(h) : (l \o h)[Len(l) + k] = h[k]
      BY <2>1, ConcatCells
    <2> QED
      BY <1>1, <1>2, <2>2
  <1> HIDE DEF t, n
  <1>4. t[1] = b /\ t[n + 2] = b
    <2>1. 1 \in 1..1 + n /\ 1 \in 1..1 /\ (1 + n) + 1 = n + 2
      BY <1>n
    <2> QED
      BY <1>1, <1>2, <1>3, <2>1
  <1>5. \A k \in 1..n : t[k + 1] = body[k]
    <2>1. \A k \in 1..n : 1 + k \in 1..1 + n /\ 1 + k = k + 1
      BY <1>n
    <2> QED
      BY <1>2, <1>3, <2>1
  <1>6. ASSUME NEW i \in 1..n + 1, NEW j \in 0..n
        PROVE  SubSeq(t, i + 1, j + 1) = SubSeq(body, i, j)
    <2>1. SubSeq(h \o body, 1 + i, 1 + j) = SubSeq(body, i, j)
      <3>1. h \in Seq(S) /\ i \in 1..Len(body) + 1 /\ j \in 0..Len(body)
        BY <1>1 DEF n
      <3>2. SubSeq(h \o body, Len(h) + i, Len(h) + j) = SubSeq(body, i, j)
        BY <3>1, PartOfConcat
      <3> QED
        BY <1>1, <3>2
    <2>2. 1 + i = i + 1 /\ 1 + j = j + 1 /\ i \in Int /\ j \in Int
      BY <1>n
    <2>3. SubSeq(l, i + 1, j + 1) = SubSeq(body, i, j)
      BY <2>1, <2>2 DEF l
    <2>4. CASE j < i
      <3>1. SubSeq(t, i + 1, j + 1) = <<>>
        <4>1. j + 1 < i + 1 /\ i + 1 \in Int /\ j + 1 \in Int
          BY <2>2, <2>4
        <4> QED
          BY <4>1, SubSeqEmpty
      <3>2. SubSeq(body, i, j) = <<>>
        BY <2>2, <2>4, SubSeqEmpty
      <3> QED
        BY <3>1, <3>2
    <2>5. CASE i <= j
      <3>1. i + 1 \in 1..Len(l) /\ j + 1 \in i + 1..Len(l)
        BY <1>2, <1>n, <2>5
      <3>2. SubSeq(t, i + 1, j + 1) = SubSeq(l, i + 1, j + 1)
        BY <1>1, <1>2, <3>1, SubSeqOfConcat1 DEF t
      <3> QED
        BY <2>3, <3>2
    <2> QED
      BY <2>2, <2>4, <2>5
  <1>7. (1 + n) + 1 = n + 2
    BY <1>n
  <1> QED
    BY <1>3, <1>4, <1>5, <1>6, <1>7 DEF t, l, h, n

\* A variable whose name and default have no sign.
Sound(v) == /\ v.name \in Seq(Letters) /\ Len(v.name) \in 1..13
            /\ v.default \in Seq(Letters) /\ v.mandatory \in BOOLEAN

\* A name has a first cell.
LEMMA ShortTexts == \A n \in 1..13 : n \in Nat /\ n > 0 /\ 1 \in 1..n
  OBVIOUS

\* The name with its mark: the mark tells whether the variable is mandatory.
LEMMA NamedFacts ==
  ASSUME NEW v, Sound(v)
  PROVE  /\ Named(v) \in Seq(Cells \ {"%", "|"}) /\ Len(Named(v)) + 2 = Bar(v) /\ Bar(v) \in 3..16
         /\ Named(v) # <<>>
         /\ Named(v)[1] = "!" <=> v.mandatory
         /\ v.mandatory => Tail(Named(v)) = v.name
         /\ ~v.mandatory => Named(v) = v.name
  <1> DEFINE S == Cells \ {"%", "|"}
             w == Named(v)
             nm == v.name
             n == Len(nm)
  <1>1. Letters \subseteq S /\ "!" \in S
    <2>1. "!" # "%" /\ "!" # "|"
      OBVIOUS
    <2> QED
      BY <2>1, Signs
  <1>2. nm \in Seq(Letters) /\ n \in 1..13
    BY DEF Sound
  <1>3. nm \in Seq(S) /\ nm[1] \in Letters
    <2>1. \A k \in 1..Len(nm) : nm[k] \in Letters
      BY <1>2, ElementOfSeq
    <2>2. 1 \in 1..Len(nm)
      BY <1>2, ShortTexts, Zenon
    <2> HIDE DEF nm
    <2> QED
      BY <1>1, <1>2, <2>1, <2>2
  <1>4. CASE v.mandatory
    <2> DEFINE h == <<"!">>
    <2>1. h \in Seq(S) /\ Len(h) = 1 /\ h[1] = "!"
      BY <1>1
    <2> HIDE DEF h
    <2>2. w = h \o nm /\ Bar(v) = 2 + 1 + n
      BY <1>4 DEF Named, Bar, h
    <2> HIDE DEF w, n, nm
    <2>3. /\ w \in Seq(S) /\ Len(w) = Len(h) + Len(nm)
          /\ \A k \in 1..Len(h) : w[k] = h[k]
      BY <1>3, <2>1, <2>2, ConcatCells
    <2>4. Len(w) = 1 + n /\ w[1] = "!"
      <3>1. 1 \in 1..1
        OBVIOUS
      <3> QED
        BY <2>1, <2>3, <3>1 DEF n
    <2>5. w # <<>>
      BY <1>2, <2>4
    <2>6. Tail(w) = nm
      <3>1. Tail(w) = SubSeq(w, 2, Len(w))
        BY <2>3, <2>5, TailIsSubSeq
      <3>2. 1 \in 1..Len(nm) + 1 /\ Len(nm) \in 0..Len(nm)
        BY <1>2 DEF n
      <3>3. SubSeq(h \o nm, Len(h) + 1, Len(h) + Len(nm)) = SubSeq(nm, 1, Len(nm))
        BY <1>3, <2>1, <3>2, PartOfConcat
      <3>4. SubSeq(nm, 1, Len(nm)) = nm
        BY <1>3, SubSeqFull
      <3>5. Len(h) + 1 = 2 /\ Len(h) + Len(nm) = Len(w)
        BY <2>1, <2>3
      <3> QED
        BY <2>2, <3>1, <3>3, <3>4, <3>5
    <2>7. Len(w) + 2 = Bar(v) /\ Bar(v) \in 3..16
      BY <1>2, <2>2, <2>4
    <2> QED
      BY <1>4, <2>3, <2>4, <2>5, <2>6, <2>7 DEF w, nm
  <1>5. CASE ~v.mandatory
    <2>1. w = nm /\ Bar(v) = 2 + 0 + n
      <3>1. w = <<>> \o nm
        BY <1>5 DEF Named
      <3>2. <<>> \o nm = nm
        BY <1>3, ConcatEmptySeq
      <3>3. Bar(v) = 2 + 0 + n
        BY <1>5 DEF Bar
      <3> QED
        BY <3>1, <3>2, <3>3
    <2> HIDE DEF w, n, nm
    <2>2. Len(w) = n /\ w # <<>>
      <3>1. Len(w) = n
        BY <2>1 DEF n
      <3>2. n > 0
        BY <1>2, ShortTexts
      <3>3. Len(<<>>) = 0
        OBVIOUS
      <3> QED
        BY <3>1, <3>2, <3>3
    <2>3. w[1] # "!"
      BY <1>3, <2>1, Signs
    <2>4. Len(w) + 2 = Bar(v) /\ Bar(v) \in 3..16
      BY <1>2, <2>1, <2>2
    <2> QED
      BY <1>3, <1>5, <2>1, <2>2, <2>3, <2>4 DEF w, nm
  <1>6. v.mandatory \/ ~v.mandatory
    BY DEF Sound
  <1> QED
    BY <1>4, <1>5, <1>6

\* Where in a token the signs are, and what stands between them.
LEMMA TokenFacts ==
  ASSUME NEW v, Sound(v)
  PROVE  LET t == Token(v)
             n == Len(t)
         IN  /\ t \in Seq(Cells)
             /\ n = IF v.default = <<>> THEN Bar(v) ELSE Bar(v) + Len(v.default) + 1
             /\ n \in Nat /\ n > 2
             /\ t[1] = "%" /\ t[n] = "%"
             /\ \A k \in 2..n - 1 : /\ t[k] # "%"
                                    /\ t[k] = "|" <=> v.default # <<>> /\ k = Bar(v)
             /\ v.default = <<>> => SubSeq(t, 2, n - 1) = Named(v)
             /\ v.default # <<>> => /\ Bar(v) < n - 1
                                    /\ SubSeq(t, 2, Bar(v) - 1) = Named(v)
                                    /\ SubSeq(t, Bar(v) + 1, n - 1) = v.default
  <1> DEFINE t == Token(v)
             w == Named(v)
             d == v.default
             p == "%"
             h == <<p>>
             sign == IF v.mandatory THEN <<"!">> ELSE <<>>
             back == IF d = <<>> THEN <<>> ELSE <<"|">> \o d
             body == w \o back
             b == Len(body)
  <1>s. /\ p \in Cells /\ "|" \in Cells /\ "!" \in Cells /\ Letters \subseteq Cells
        /\ \A x \in Letters : x # "%" /\ x # "|" /\ x # "!"
    BY Signs
  <1>1. /\ d \in Seq(Letters) /\ v.name \in Seq(Letters) /\ v.mandatory \in BOOLEAN
        /\ d \in Seq(Cells) /\ v.name \in Seq(Cells)
    BY <1>s DEF Sound
  <1>2. /\ w \in Seq(Cells \ {"%", "|"}) /\ w \in Seq(Cells)
        /\ Len(w) + 2 = Bar(v) /\ Bar(v) \in 3..16 /\ Len(w) \in Nat
    BY NamedFacts, LenProperties
  <1>3. sign \in Seq(Cells) /\ w = sign \o v.name
    BY <1>s DEF Named
  <1>4. h \in Seq(Cells)
    BY <1>s
  <1>5. t = (((h \o sign) \o v.name) \o back) \o h
    BY DEF Token
  <1> DEFINE bar == <<"|">>
  <1>b. bar \in Seq(Cells) /\ Len(bar) = 1 /\ bar[1] = "|"
    BY <1>s
  <1>6. back \in Seq(Cells) /\ (d = <<>> => back = <<>>) /\ (d # <<>> => back = bar \o d)
    <2> HIDE DEF bar
    <2>1. back = IF d = <<>> THEN <<>> ELSE bar \o d
      BY DEF bar
    <2>2. bar \o d \in Seq(Cells)
      BY <1>1, <1>b, ConcatProperties
    <2> HIDE DEF back
    <2>3. <<>> \in Seq(Cells)
      OBVIOUS
    <2> QED
      BY <2>1, <2>2, <2>3
  <1> HIDE DEF t, w, h, sign, back, bar, p
  <1>7. /\ body \in Seq(Cells) /\ b \in Nat /\ b = Len(w) + Len(back)
        /\ \A k \in 1..Len(w) : body[k] = w[k]
        /\ \A j \in 1..Len(back) : body[Len(w) + j] = back[j]
    BY <1>2, <1>6, ConcatCells
  <1>8. t = (h \o body) \o h
    <2>1. (h \o sign) \o v.name = h \o w
      <3> DEFINE nm == v.name
      <3>1. (h \o sign) \o nm = h \o (sign \o nm)
        <4>1. sign \in Seq(Cells) /\ nm \in Seq(Cells)
          BY <1>1, <1>3
        <4> HIDE DEF nm
        <4> QED
          BY <1>4, <4>1, ConcatAssociative
      <3> QED
        BY <1>3, <3>1
    <2>2. (h \o w) \o back = h \o body
      <3>1. w \in Seq(Cells) /\ back \in Seq(Cells)
        BY <1>2, <1>6
      <3>2. (h \o w) \o back = h \o (w \o back)
        BY <1>4, <3>1, ConcatAssociative, SMTT(60)
      <3> QED
        BY <3>2
    <2> QED
      BY <1>5, <2>1, <2>2
  <1> HIDE DEF body
  <1>9. /\ t \in Seq(Cells) /\ Len(t) = b + 2
        /\ t[1] = p /\ t[b + 2] = p
        /\ \A k \in 1..b : t[k + 1] = body[k]
        /\ \A i \in 1..b + 1, j \in 0..b : SubSeq(t, i + 1, j + 1) = SubSeq(body, i, j)
    <2>1. t = (<<p>> \o body) \o <<p>>
      BY <1>8 DEF h
    <2> QED
      BY <1>7, <1>s, <2>1, Bracketed
  <1> HIDE DEF b
  <1>10. \A k \in 1..Len(w) : w[k] # "%" /\ w[k] # "|"
    <2>1. \A k \in 1..Len(w) : w[k] \in Cells \ {"%", "|"}
      BY <1>2, ElementOfSeq
    <2> QED
      BY <2>1
  <1>11. SubSeq(body, 1, Len(w)) = w
    BY <1>2, <1>6, StartOfConcat DEF body
  <1>12. CASE d = <<>>
    <2>1. b = Len(w)
      <3>1. Len(back) = 0
        BY <1>6, <1>12
      <3> QED
        BY <1>2, <1>7, <3>1
    <2>2. Len(t) = Bar(v) /\ Len(t) > 2 /\ Len(t) \in Nat /\ t[Len(t)] = p
      BY <1>2, <1>9, <2>1
    <2>3. ASSUME NEW k \in 2..Len(t) - 1 PROVE t[k] # "%" /\ t[k] # "|"
      <3>1. k - 1 \in 1..Len(w) /\ k - 1 \in 1..b /\ (k - 1) + 1 = k
        BY <1>2, <1>9, <2>1, <2>2
      <3>2. t[k] = w[k - 1]
        BY <1>7, <1>9, <3>1
      <3> QED
        BY <1>10, <3>1, <3>2
    <2>4. SubSeq(t, 2, Len(t) - 1) = w
      <3>1. 1 \in 1..b + 1 /\ Len(w) \in 0..b /\ 1 + 1 = 2 /\ Len(w) + 1 = Len(t) - 1
        BY <1>2, <1>9, <2>1, <2>2
      <3>2. SubSeq(t, 1 + 1, Len(w) + 1) = SubSeq(body, 1, Len(w))
        BY <1>9, <3>1
      <3> QED
        BY <1>11, <3>1, <3>2
    <2>5. v.default = <<>> /\ t[1] = "%" /\ t[Len(t)] = "%"
      BY <1>9, <1>12, <2>2 DEF p
    <2> QED
      BY <1>9, <2>2, <2>3, <2>4, <2>5 DEF t, w
  <1>13. CASE d # <<>>
    <2> DEFINE m == Len(d)
    <2>1. m \in Nat /\ m > 0
      BY <1>1, <1>13, EmptySeq, LenProperties
    <2>2. /\ back = bar \o d /\ Len(back) = 1 + m
          /\ back[1] = "|"
          /\ \A k \in 1..m : back[1 + k] = d[k]
      <3>1. back = bar \o d
        BY <1>6, <1>13
      <3>2. /\ Len(bar \o d) = Len(bar) + Len(d)
            /\ \A k \in 1..Len(bar) : (bar \o d)[k] = bar[k]
            /\ \A k \in 1..Len(d) : (bar \o d)[Len(bar) + k] = d[k]
        <4>1. bar \in Seq(Cells) /\ d \in Seq(Cells)
          BY <1>1, <1>b
        <4> HIDE DEF d
        <4> QED
          BY <4>1, ConcatCells
      <3>3. 1 \in 1..1
        OBVIOUS
      <3> QED
        BY <1>b, <3>1, <3>2, <3>3
    <2> HIDE DEF m
    <2>3. /\ b = Len(w) + 1 + m
          /\ Len(t) = Bar(v) + m + 1 /\ Len(t) > 2 /\ Len(t) \in Nat /\ t[Len(t)] = p
          /\ Bar(v) < Len(t) - 1
      <3>1. b = Len(w) + (1 + m)
        BY <1>7, <2>2
      <3>2. Len(t) = b + 2 /\ t[b + 2] = p
        BY <1>9
      <3> QED
        BY <1>2, <2>1, <3>1, <3>2
    <2>4. \A k \in 1..m : d[k] # "%" /\ d[k] # "|"
      <3>1. \A k \in 1..m : d[k] \in Letters
        BY <1>1, ElementOfSeq DEF m
      <3> QED
        BY <1>s, <3>1
    <2>5. ASSUME NEW k \in 2..Len(t) - 1 PROVE t[k] # "%" /\ (t[k] = "|" <=> k = Bar(v))
      <3>1. k - 1 \in 1..b /\ (k - 1) + 1 = k
        BY <1>2, <1>9, <2>1, <2>3
      <3>2. t[k] = body[k - 1]
        BY <1>9, <3>1
      <3>3. CASE k < Bar(v)
        <4>1. k - 1 \in 1..Len(w) /\ k # Bar(v)
          BY <1>2, <3>3
        <4>2. body[k - 1] = w[k - 1]
          BY <1>7, <4>1
        <4> QED
          BY <1>10, <3>2, <4>1, <4>2
      <3>4. CASE k = Bar(v)
        <4>1. k - 1 = Len(w) + 1 /\ 1 \in 1..Len(back)
          BY <1>2, <2>1, <2>2, <3>4
        <4>2. body[Len(w) + 1] = back[1]
          BY <1>7, <4>1
        <4>3. t[k] = "|"
          BY <2>2, <3>2, <4>1, <4>2
        <4>4. "|" # "%"
          OBVIOUS
        <4> QED
          BY <3>4, <4>3, <4>4
      <3>5. CASE k > Bar(v)
        <4> DEFINE j == k - Bar(v)
                   bv == Bar(v)
                   n == Len(t)
                   l == Len(w)
        <4>3. /\ bv \in Nat /\ n \in Nat /\ l \in Nat /\ m \in Nat /\ l + 2 = bv /\ n = bv + m + 1
              /\ k > bv /\ k \in 2..n - 1 /\ j = k - bv
          BY <1>2, <2>1, <2>3, <3>5
        <4> HIDE DEF bv, n, l, j
        <4>4. /\ j \in 1..m /\ 1 + j \in 1..1 + m /\ k - 1 = l + (1 + j) /\ k # bv
          BY <4>3
        <4>1. /\ j \in 1..m /\ 1 + j \in 1..Len(back) /\ k - 1 = Len(w) + (1 + j) /\ k # Bar(v)
          BY <2>2, <4>4 DEF bv, l
        <4>2. body[Len(w) + (1 + j)] = back[1 + j]
          BY <1>7, <4>1
        <4>5. back[1 + j] = d[j]
          BY <2>2, <4>1
        <4>6. t[k] = d[j]
          BY <3>2, <4>1, <4>2, <4>5
        <4> QED
          BY <2>4, <4>1, <4>6
      <3>6. k < Bar(v) \/ k = Bar(v) \/ k > Bar(v)
        BY <1>2
      <3> QED
        BY <3>3, <3>4, <3>5, <3>6
    <2>6. SubSeq(t, 2, Bar(v) - 1) = w
      <3>1. 1 \in 1..b + 1 /\ Len(w) \in 0..b /\ 1 + 1 = 2 /\ Len(w) + 1 = Bar(v) - 1
        BY <1>2, <2>1, <2>3
      <3>2. SubSeq(t, 1 + 1, Len(w) + 1) = SubSeq(body, 1, Len(w))
        BY <1>9, <3>1
      <3> QED
        BY <1>11, <3>1, <3>2
    <2>7. SubSeq(t, Bar(v) + 1, Len(t) - 1) = d
      <3> DEFINE l == Len(w)
      <3>1. /\ l + 2 \in 1..b + 1 /\ b \in 0..b /\ (l + 2) + 1 = Bar(v) + 1 /\ b + 1 = Len(t) - 1
            /\ l \in Nat /\ l + 2 = l + 2 /\ b = l + (1 + m)
        BY <1>2, <1>9, <2>1, <2>3
      <3>2. SubSeq(t, (l + 2) + 1, b + 1) = SubSeq(body, l + 2, b)
        BY <1>9, <3>1
      <3>3. SubSeq(w \o back, Len(w) + 2, Len(w) + (1 + m)) = SubSeq(back, 2, 1 + m)
        <4>1. 2 \in 1..Len(back) + 1 /\ 1 + m \in 0..Len(back)
          BY <2>1, <2>2
        <4> QED
          <5>1. w \in Seq(Cells) /\ back \in Seq(Cells)
            BY <1>2, <1>6
          <5>2. 2 \in 1..Len(back) + 1
            BY <4>1
          <5>3. 1 + m \in 0..Len(back)
            BY <4>1
          <5> QED
            BY <5>1, <5>2, <5>3, PartOfConcat, Zenon
      <3>4. SubSeq(bar \o d, Len(bar) + 1, Len(bar) + m) = SubSeq(d, 1, m)
        <4>1. 1 \in 1..Len(d) + 1 /\ m \in 0..Len(d)
          BY <2>1 DEF m
        <4> QED
          BY <1>1, <1>b, <4>1, PartOfConcat
      <3>5. SubSeq(back, 2, 1 + m) = SubSeq(d, 1, m)
        <4>1. Len(bar) + 1 = 2 /\ Len(bar) + m = 1 + m
          BY <1>b, <2>1
        <4> QED
          BY <2>2, <3>4, <4>1
      <3>6. SubSeq(d, 1, m) = d
        BY <1>1, SubSeqFull DEF m
      <3>7. SubSeq(body, l + 2, b) = SubSeq(back, 2, 1 + m)
        BY <3>1, <3>3 DEF body
      <3> HIDE DEF l
      <3> QED
        BY <3>1, <3>2, <3>5, <3>6, <3>7
    <2>8. v.default # <<>> /\ t[1] = "%" /\ t[Len(t)] = "%" /\ Len(t) = Bar(v) + Len(v.default) + 1
      BY <1>9, <1>13, <2>3 DEF p, m
    <2> QED
      BY <1>9, <2>3, <2>5, <2>6, <2>7, <2>8 DEF t, w
  <1> QED
    BY <1>12, <1>13

-----------------------------------------------------------------------------
(***************************************************************************)
(* A text while it is scanned: how much of it is replaced (none for the    *)
(* help), what comes before, in the place of, and behind the next          *)
(* variable.                                                               *)
(***************************************************************************)
\* What is between two places of a text in the middle of another.
LEMMA MiddlePart ==
  ASSUME NEW u \in Seq(Cells), NEW t \in Seq(Cells), NEW r \in Seq(Cells)
  PROVE  \A i \in 1..Len(t) + 1, j \in 0..Len(t) :
           SubSeq((u \o t) \o r, Len(u) + i, Len(u) + j) = SubSeq(t, i, j)
  <1> TAKE i \in 1..Len(t) + 1, j \in 0..Len(t)
  <1> DEFINE y == t \o r
  <1>1. (u \o t) \o r = u \o y
    BY ConcatAssociative
  <1>2. /\ y \in Seq(Cells) /\ Len(y) = Len(t) + Len(r)
        /\ Len(t) \in Nat /\ Len(r) \in Nat
    BY ConcatCells
  <1>3. i \in Int /\ j \in Int
    BY <1>2
  <1>4. SubSeq(y, i, j) = SubSeq(t, i, j)
    <2>1. CASE j < i
      <3>1. SubSeq(y, i, j) = <<>> /\ SubSeq(t, i, j) = <<>>
        BY <1>3, <2>1, SubSeqEmpty
      <3> QED
        BY <3>1
    <2>2. CASE i <= j
      <3>1. i \in 1..Len(t) /\ j \in 1..Len(t)
        BY <1>2, <2>2
      <3> QED
        BY <3>1, SubSeqOfConcat1
    <2> QED
      BY <1>3, <2>1, <2>2
  <1> HIDE DEF y
  <1>5. SubSeq(u \o y, Len(u) + i, Len(u) + j) = SubSeq(y, i, j)
    <2>1. i \in 1..Len(y) + 1 /\ j \in 0..Len(y)
      BY <1>2
    <2> QED
      BY <1>2, <2>1, PartOfConcat
  <1> QED
    BY <1>1, <1>4, <1>5

\* A text in the middle of another.
LEMMA Middle ==
  ASSUME NEW S, NEW u \in Seq(S), NEW t \in Seq(S), NEW r \in Seq(S)
  PROVE  /\ (u \o t) \o r \in Seq(S) /\ Len((u \o t) \o r) = Len(u) + Len(t) + Len(r)
         /\ Len(u) \in Nat /\ Len(t) \in Nat /\ Len(r) \in Nat
         /\ \A k \in 1..Len(u) : ((u \o t) \o r)[k] = u[k]
         /\ \A k \in 1..Len(t) : ((u \o t) \o r)[Len(u) + k] = t[k]
         /\ SubSeq((u \o t) \o r, 1, Len(u)) = u
         /\ SubSeq((u \o t) \o r, Len(u) + Len(t) + 1, Len((u \o t) \o r)) = r
  <1> DEFINE w == u \o t
             y == t \o r
             x == w \o r
             p == Len(u)
             n == Len(t)
             l == Len(r)
  <1>1. p \in Nat /\ n \in Nat /\ l \in Nat
    BY LenProperties
  <1>2. x = u \o y
    BY ConcatAssociative
  <1>3. w \in Seq(S) /\ y \in Seq(S)
    BY ConcatProperties
  <1>4. Len(w) = p + n
    BY ConcatProperties
  <1>5. /\ Len(y) = n + l
        /\ \A k \in 1..n : y[k] = t[k]
    BY ConcatCells
  <1> HIDE DEF x, y, w
  <1>6. x \in Seq(S) /\ Len(x) = p + n + l
    <2>1. w \o r \in Seq(S) /\ Len(w \o r) = Len(w) + Len(r)
      BY <1>3, ConcatProperties
    <2> QED
      BY <1>4, <2>1 DEF x
  <1>7. /\ \A k \in 1..p : x[k] = u[k]
        /\ \A k \in 1..Len(y) : x[p + k] = y[k]
    BY <1>2, <1>3, ConcatCells
  <1>8. \A k \in 1..n : x[p + k] = t[k]
    <2> SUFFICES ASSUME NEW k \in 1..n PROVE x[p + k] = t[k]
      OBVIOUS
    <2>1. k \in 1..Len(y)
      BY <1>1, <1>5
    <2> QED
      BY <1>5, <1>7, <2>1
  <1>9. SubSeq(x, 1, p) = u
    BY <1>2, <1>3, StartOfConcat
  <1>10. SubSeq(x, p + n + 1, Len(x)) = r
    <2>1. 1 \in 1..l + 1 /\ l \in 0..l
      BY <1>1
    <2>2. SubSeq(w \o r, Len(w) + 1, Len(w) + l) = SubSeq(r, 1, l)
      BY <1>3, <2>1, PartOfConcat
    <2>3. SubSeq(r, 1, l) = r
      BY SubSeqFull
    <2> QED
      BY <1>4, <1>6, <2>2, <2>3 DEF x
  <1> QED
    <2> HIDE DEF p, n, l
    <2>1. /\ x \in Seq(S) /\ Len(x) = p + n + l
          /\ p \in Nat /\ n \in Nat /\ l \in Nat
          /\ \A k \in 1..p : x[k] = u[k]
          /\ \A k \in 1..n : x[p + k] = t[k]
          /\ SubSeq(x, 1, p) = u
          /\ SubSeq(x, p + n + 1, Len(x)) = r
      BY <1>1, <1>6, <1>7, <1>8, <1>9, <1>10
    <2> QED
      BY <2>1 DEF x, w, p, n, l

\* The first i variables are replaced.
Fills(c, a, i) ==
    [k \in DOMAIN Variables(c) |-> IF k <= i THEN Value(Variables(c)[k], a)
                                             ELSE Token(Variables(c)[k])]
Lead(l, c, a, i) == Upto(c, Fills(c, a, IF l = "listing" THEN 0 ELSE i), i)
Filling(l, v, a) == IF l = "listing" THEN Token(v) ELSE Value(v, a)
Text(l, c, a, i) == Filled(c, Fills(c, a, IF l = "listing" THEN 0 ELSE i))
\* What stands behind the variable i + 1.
Rest(l, c, a, i) ==
    CHOOSE rest : /\ rest \in Seq(Cells)
                  /\ Text(l, c, a, i) = (Lead(l, c, a, i) \o Token(Variables(c)[i + 1])) \o rest
                  /\ Text(l, c, a, i + 1)
                       = (Lead(l, c, a, i) \o Filling(l, Variables(c)[i + 1], a)) \o rest

\* Arguments whose values are texts.
GoodArgs(a) == \A x \in DOMAIN a : a[x] \in Seq(Cells)

\* The variables of the table are sound.
LEMMA SoundVariables ==
  ASSUME NEW c \in Commands, NEW i \in 1..Number(c)
  PROVE  Sound(Variables(c)[i])
  BY VariableFacts DEF Sound, Number

\* A text of letters has no sign.
LEMMA CellsOfText ==
  ASSUME NEW t \in Seq(Letters)
  PROVE  t \in Seq(Cells) /\ \A k \in 1..Len(t) : t[k] # "%"
  <1>1. Letters \subseteq Cells /\ \A x \in Letters : x # "%"
    BY Signs
  <1>2. \A k \in 1..Len(t) : t[k] \in Letters
    BY ElementOfSeq
  <1> QED
    BY <1>1, <1>2

\* What replaces a variable is a text.
LEMMA ValueType ==
  ASSUME NEW v, Sound(v), NEW a, GoodArgs(a)
  PROVE  Value(v, a) \in Seq(Cells)
  <1>1. v.default \in Seq(Cells)
    BY CellsOfText DEF Sound
  <1> QED
    BY <1>1 DEF Value, GoodArgs

\* In the place of a variable is its value if it was replaced, otherwise its token.
LEMMA FillsType ==
  ASSUME NEW c \in Commands, NEW a, GoodArgs(a), NEW i \in Nat
  PROVE  /\ Fills(c, a, i) \in [1..Number(c) -> Seq(Cells)]
         /\ \A k \in 1..Number(c) :
              Fills(c, a, i)[k] = IF k <= i THEN Value(Variables(c)[k], a)
                    ELSE Token(Variables(c)[k])
  <1> DEFINE n == Number(c)
             f == Fills(c, a, i)
  <1>1. DOMAIN Variables(c) = 1..n
    BY Numbers
  <1>2. \A k \in 1..n : f[k] = IF k <= i THEN Value(Variables(c)[k], a) ELSE Token(Variables(c)[k])
    BY <1>1, Zenon DEF Fills
  <1>3. f = [k \in 1..n |-> f[k]]
    BY <1>1 DEF Fills
  <1> HIDE DEF f
  <1>4. ASSUME NEW k \in 1..n PROVE f[k] \in Seq(Cells)
    <2>1. Sound(Variables(c)[k])
      BY SoundVariables
    <2>2. Value(Variables(c)[k], a) \in Seq(Cells)
      BY <2>1, ValueType
    <2>3. Token(Variables(c)[k]) \in Seq(Cells)
      BY <2>1, TokenFacts
    <2> QED
      BY <1>2, <2>2, <2>3
  <1>5. f \in [1..n -> Seq(Cells)]
    BY <1>3, <1>4
  <1> QED
    BY <1>2, <1>5 DEF f

\* What is around the variable i + 1 while the scan is there, and when it has gone on.
LEMMA Around ==
  ASSUME NEW c \in Commands, NEW a, GoodArgs(a), NEW l, NEW i \in 0..Number(c) - 1
  PROVE  /\ Lead(l, c, a, i) \in Seq(Cells)
         /\ Token(Variables(c)[i + 1]) \in Seq(Cells)
         /\ Filling(l, Variables(c)[i + 1], a) \in Seq(Cells)
         /\ Rest(l, c, a, i) \in Seq(Cells)
         /\ Text(l, c, a, i)
              = (Lead(l, c, a, i) \o Token(Variables(c)[i + 1])) \o Rest(l, c, a, i)
         /\ Text(l, c, a, i + 1)
              = (Lead(l, c, a, i) \o Filling(l, Variables(c)[i + 1], a)) \o Rest(l, c, a, i)
         /\ Lead(l, c, a, i + 1)
              = Lead(l, c, a, i) \o (Filling(l, Variables(c)[i + 1], a) \o Gap(c, i + 2))
  <1> DEFINE n == Number(c)
             v == Variables(c)[i + 1]
             u == Lead(l, c, a, i)
             x == Filling(l, v, a)
             j == IF l = "listing" THEN 0 ELSE i
             k == IF l = "listing" THEN 0 ELSE i + 1
             f == Fills(c, a, j)
             g == Fills(c, a, k)
  <1>n. n \in Nat /\ i \in Nat /\ i + 1 \in 1..n /\ i \in 0..n - 1 /\ i \in 0..n
    BY Numbers
  <1>1. j \in Nat /\ k \in Nat /\ j <= i
    BY <1>n
  <1>2. /\ f \in [1..n -> Seq(Cells)]
        /\ \A q \in 1..n : f[q] = IF q <= j THEN Value(Variables(c)[q], a)
              ELSE Token(Variables(c)[q])
    BY <1>1, FillsType
  <1>3. /\ g \in [1..n -> Seq(Cells)]
        /\ \A q \in 1..n : g[q] = IF q <= k THEN Value(Variables(c)[q], a)
              ELSE Token(Variables(c)[q])
    BY <1>1, FillsType
  <1> HIDE DEF f, g, n
  <1>4. f[i + 1] = Token(v) /\ g[i + 1] = x
    <2>1. ~(i + 1 <= j)
      BY <1>n, <1>1
    <2>2. f[i + 1] = Token(v)
      BY <1>2, <1>n, <2>1
    <2>3. g[i + 1] = IF i + 1 <= k THEN Value(v, a) ELSE Token(v)
      BY <1>3, <1>n
    <2>4. i + 1 <= k <=> l # "listing"
      BY <1>n
    <2> QED
      BY <2>2, <2>3, <2>4 DEF Filling
  <1>5. \A q \in 1..n : q # i + 1 => f[q] = g[q]
    <2> SUFFICES ASSUME NEW q \in 1..n, q # i + 1 PROVE f[q] = g[q]
      OBVIOUS
    <2>1. q <= j <=> q <= k
      BY <1>n
    <2> QED
      BY <1>2, <1>3, <2>1
  <1>6. Token(v) \in Seq(Cells) /\ x \in Seq(Cells)
    BY <1>2, <1>3, <1>4, <1>n
  <1> HIDE DEF x, v
  <1>7. f = Put(f, i + 1, Token(v)) /\ g = Put(f, i + 1, x)
    <2>1. f = [f EXCEPT ![i + 1] = Token(v)]
      BY <1>2, <1>4
    <2>2. g = [f EXCEPT ![i + 1] = x]
      BY <1>2, <1>3, <1>4, <1>5
    <2> QED
      BY <2>1, <2>2 DEF Put
  <1>8. "." \in Cells
    BY Signs
  <1>9. u = Upto(c, f, i)
    BY DEF Lead, f
  <1> HIDE DEF u, j, k
  <1>10. PICK rest \in Seq(Cells) : \A y \in Seq(Cells) :
            Filled(c, Put(f, i + 1, y)) = (Upto(c, f, i) \o y) \o rest
    <2>1. f \in [1..Number(c) -> Seq(Cells)]
      BY <1>2 DEF n
    <2>2. i \in 0..Number(c) - 1
      OBVIOUS
    <2>3. Dividing(c, Cells, f, i)
      BY <1>8, <2>1, <2>2, Divides
    <2> QED
      BY <2>3, Zenon DEF Dividing
  <1>11. Filled(c, f) = (u \o Token(v)) \o rest /\ Filled(c, g) = (u \o x) \o rest
    <2>1. Filled(c, Put(f, i + 1, Token(v))) = (u \o Token(v)) \o rest
      BY <1>6, <1>9, <1>10
    <2>2. Filled(c, Put(f, i + 1, x)) = (u \o x) \o rest
      BY <1>6, <1>9, <1>10
    <2> QED
      BY <1>7, <2>1, <2>2
  <1>12. Text(l, c, a, i) = Filled(c, f) /\ Text(l, c, a, i + 1) = Filled(c, g)
    BY DEF Text, f, g, j, k
  <1>13. Lead(l, c, a, i + 1) = u \o (x \o Gap(c, i + 2))
    <2>1. Lead(l, c, a, i + 1) = Upto(c, g, i + 1)
      BY DEF Lead, g, k
    <2>2. Upto(c, g, i + 1) = Upto(c, g, i) \o (g[i + 1] \o Gap(c, i + 2))
      <3>1. g \in [1..Number(c) -> Seq(Cells)] /\ i \in 0..Number(c) - 1
        BY <1>3 DEF n
      <3> QED
        BY <1>8, <3>1, UptoSteps
    <2>3. Upto(c, g, i) = Upto(c, f, i)
      <3>1. \A q \in 1..i : g[q] = f[q]
        <4>1. \A q \in 1..i : q \in 1..n /\ q # i + 1
          BY <1>n
        <4> QED
          BY <1>5, <4>1
      <3> QED
        BY <1>n, <3>1, UptoAgrees
    <2> QED
      BY <1>4, <1>9, <2>1, <2>2, <2>3
  <1>14. u \in Seq(Cells)
    <2>1. f \in [1..Number(c) -> Seq(Cells)] /\ i \in 0..Number(c)
      BY <1>2, <1>n DEF n
    <2> QED
      BY <1>8, <1>9, <2>1, UptoSteps
  <1>15. \E r : /\ r \in Seq(Cells)
                /\ Text(l, c, a, i) = (u \o Token(v)) \o r
                /\ Text(l, c, a, i + 1) = (u \o x) \o r
    BY <1>11, <1>12
  <1>16. /\ Rest(l, c, a, i) \in Seq(Cells)
         /\ Text(l, c, a, i) = (u \o Token(v)) \o Rest(l, c, a, i)
         /\ Text(l, c, a, i + 1) = (u \o x) \o Rest(l, c, a, i)
    BY <1>15, Zenon DEF Rest, u, x, v
  <1> QED
    BY <1>6, <1>13, <1>14, <1>16 DEF u, x, v

\* At the start the text is the template, behind the last variable it is the expected one.
LEMMA Ends ==
  ASSUME NEW c \in Commands, NEW a, GoodArgs(a), NEW l
  PROVE  /\ Lead(l, c, a, 0) = Gap(c, 1)
         /\ Text(l, c, a, 0) = Template(c)
         /\ Text(l, c, a, Number(c)) = Lead(l, c, a, Number(c))
         /\ Text("replacing", c, a, Number(c)) = Expected(c, a)
         /\ \A i \in 0..Number(c) : /\ Lead(l, c, a, i) \in Seq(Cells)
                                    /\ Text(l, c, a, i) \in Seq(Cells)
  <1> DEFINE n == Number(c)
             d(i) == IF l = "listing" THEN 0 ELSE i
             f(i) == Fills(c, a, i)
  <1>n. n \in Nat /\ DOMAIN Variables(c) = 1..n
    BY Numbers
  <1>1. "." \in Cells
    BY Signs
  <1>2. \A i \in Nat : d(i) \in Nat /\ f(i) \in [1..n -> Seq(Cells)]
    BY FillsType
  <1> HIDE DEF f, n
  <1>3. ASSUME NEW i \in 0..n
        PROVE  /\ Lead(l, c, a, i) \in Seq(Cells)
               /\ Text(l, c, a, i) \in Seq(Cells)
               /\ i = n => Text(l, c, a, i) = Lead(l, c, a, i)
               /\ i = 0 => Lead(l, c, a, i) = Gap(c, 1)
    <2> DEFINE g == f(d(i))
    <2>1. g \in [1..Number(c) -> Seq(Cells)]
      BY <1>2 DEF n
    <2>2. Lead(l, c, a, i) = Upto(c, g, i) /\ Text(l, c, a, i) = Filled(c, g)
      BY DEF Lead, Text, f
    <2> HIDE DEF g
    <2>3. Upto(c, g, 0) = Gap(c, 1) /\ Upto(c, g, i) \in Seq(Cells) /\ Upto(c, g, n) \in Seq(Cells)
      <3>1. i \in 0..Number(c) /\ Number(c) \in 0..Number(c)
        BY <1>n DEF n
      <3> QED
        BY <1>1, <2>1, <3>1, UptoSteps DEF n
    <2>4. Filled(c, g) = Upto(c, g, n)
      BY <2>1, FilledIsUpto DEF n
    <2> QED
      BY <2>2, <2>3, <2>4
  <1>4. Text(l, c, a, 0) = Template(c)
    <2>1. f(0) = [k \in DOMAIN Variables(c) |-> Token(Variables(c)[k])]
      <3>1. \A k \in DOMAIN Variables(c) : ~(k <= 0)
        BY <1>n
      <3> QED
        BY <3>1 DEF f, Fills
    <2>2. d(0) = 0
      OBVIOUS
    <2> QED
      BY <2>1, <2>2 DEF Text, Template, f
  <1>5. Text("replacing", c, a, n) = Expected(c, a)
    <2>1. f(n) = [k \in DOMAIN Variables(c) |-> Value(Variables(c)[k], a)]
      <3>1. \A k \in DOMAIN Variables(c) : k <= n
        BY <1>n
      <3> QED
        BY <3>1 DEF f, Fills
    <2> QED
      BY <2>1 DEF Text, Expected, f
  <1>6. 0 \in 0..n /\ n \in 0..n
    BY <1>n
  <1> QED
    BY <1>3, <1>4, <1>5, <1>6 DEF n

\* There is something before every variable, so that a token never opens at place 0.
LEMMA LeadIsLong ==
  ASSUME NEW c \in Commands, NEW a, GoodArgs(a), NEW l
  PROVE  \A i \in 0..Number(c) : Len(Lead(l, c, a, i)) \in Nat \ {0}
  <1> DEFINE n == Number(c)
             S == {i \in 0..n : Len(Lead(l, c, a, i)) \in Nat \ {0}}
  <1>n. n \in Nat
    BY Numbers
  <1>1. 0 \in S
    <2>1. Lead(l, c, a, 0) = Gap(c, 1)
      BY Ends
    <2>2. 1 \in 1..Number(c) + 1 /\ "." \in Cells
      BY <1>n, Signs
    <2>3. Gap(c, 1) \in Seq(Cells) /\ Len(Gap(c, 1)) > 0
      BY <2>2, GapFacts
    <2>4. Len(Gap(c, 1)) \in Nat
      BY <2>3, LenProperties
    <2> QED
      BY <1>n, <2>1, <2>3, <2>4
  <1>2. ASSUME NEW i \in 0..n, i \in S, i < n PROVE i + 1 \in S
    <2> DEFINE v == Variables(c)[i + 1]
               u == Lead(l, c, a, i)
               x == Filling(l, v, a)
               y == x \o Gap(c, i + 2)
    <2>1. i \in 0..Number(c) - 1 /\ i + 2 \in 1..Number(c) + 1 /\ i + 1 \in 0..n
      BY <1>n, <1>2
    <2>2. u \in Seq(Cells) /\ x \in Seq(Cells) /\ Lead(l, c, a, i + 1) = u \o y
      BY <2>1, Around
    <2>3. y \in Seq(Cells)
      <3>1. "." \in Cells
        BY Signs
      <3>2. Gap(c, i + 2) \in Seq(Cells)
        BY <2>1, <3>1, GapFacts
      <3> HIDE DEF x
      <3> QED
        BY <2>2, <3>2, ConcatProperties
    <2> HIDE DEF u, y
    <2>4. Len(u \o y) = Len(u) + Len(y) /\ Len(u) \in Nat /\ Len(y) \in Nat
      BY <2>2, <2>3, ConcatCells
    <2>5. Len(u) \in Nat \ {0}
      BY <1>2 DEF u
    <2>6. Len(Lead(l, c, a, i + 1)) \in Nat \ {0}
      BY <2>2, <2>4, <2>5
    <2> QED
      BY <2>1, <2>6
  <1> HIDE DEF S
  <1>3. 0..n \subseteq S
    BY <1>n, <1>1, <1>2, BoundedInduction
  <1> QED
    BY <1>3 DEF S

\* Behind a variable that was replaced, or read, no sign comes before the next one.
LEMMA Beyond ==
  ASSUME NEW c \in Commands, NEW a, GoodArgs(a), NEW l, NEW i \in 0..Number(c) - 1,
         l = "listing" \/ Readable(c, a)
  PROVE  LET u == Lead(l, c, a, i)
             w == Lead(l, c, a, i + 1)
             m == Len(u) + Len(Token(Variables(c)[i + 1]))
         IN  /\ i + 1 < Number(c) => m <= Len(w)
             /\ \A k \in m + 1..Len(w) : w[k] # "%"
  <1> DEFINE n == Number(c)
             v == Variables(c)[i + 1]
             u == Lead(l, c, a, i)
             w == Lead(l, c, a, i + 1)
             t == Token(v)
             x == Filling(l, v, a)
             g == Gap(c, i + 2)
             y == x \o g
             m == Len(u) + Len(t)
  <1>n. n \in Nat /\ i + 1 \in 1..n /\ i + 2 \in 1..n + 1
    BY Numbers
  <1>1. Sound(v)
    BY <1>n, SoundVariables
  <1>2. u \in Seq(Cells) /\ x \in Seq(Cells) /\ w = u \o y
    BY Around
  <1>3. /\ g \in Seq(Cells) /\ Len(g) = vCommands[c].gaps[i + 2]
        /\ \A k \in 1..Len(g) : g[k] = "."
    <2>1. "." \in Cells
      BY Signs
    <2> QED
      BY <1>n, <2>1, GapFacts
  <1>4. Len(t) \in Nat
    BY <1>1, TokenFacts
  <1>5. l # "listing" => \A k \in Len(t) + 1..Len(x) : x[k] # "%"
    <2> SUFFICES ASSUME l # "listing" PROVE \A k \in Len(t) + 1..Len(x) : x[k] # "%"
      OBVIOUS
    <2>1. i + 1 \in DOMAIN Variables(c)
      BY <1>n, Numbers
    <2>2. \A k \in Len(Token(Variables(c)[i + 1])) + 1..Len(Value(Variables(c)[i + 1], a)) :
            Value(Variables(c)[i + 1], a)[k] # "%"
      BY <2>1 DEF Readable, ReadOnce
    <2>3. x = Value(v, a)
      BY DEF Filling
    <2> QED
      BY <2>2, <2>3
  <1>6. /\ l = "listing" => x = t
        /\ l # "listing" => x = Value(v, a)
    BY DEF Filling
  <1>7. i + 1 < n /\ l # "listing" => Len(t) - Len(x) <= Len(g)
    <2> SUFFICES ASSUME i + 1 < n, l # "listing" PROVE Len(t) - Len(x) <= Len(g)
      OBVIOUS
    <2>1. i + 1 \in 1..Len(Variables(c)) - 1
      BY <1>n DEF Number
    <2>2. Len(Token(Variables(c)[i + 1])) - Len(Value(Variables(c)[i + 1], a))
          <= vCommands[c].gaps[(i + 1) + 1]
      BY <2>1 DEF Readable, Roomy
    <2>3. (i + 1) + 1 = i + 2
      BY <1>n
    <2> QED
      BY <1>3, <1>6, <2>2, <2>3
  <1> HIDE DEF x, g, t, u, w, v, n
  <1>8. /\ y \in Seq(Cells) /\ Len(y) = Len(x) + Len(g)
        /\ Len(x) \in Nat /\ Len(g) \in Nat
        /\ \A k \in 1..Len(x) : y[k] = x[k]
        /\ \A k \in 1..Len(g) : y[Len(x) + k] = g[k]
    <2>1. x \in Seq(Cells) /\ g \in Seq(Cells)
      BY <1>2, <1>3
    <2>2. /\ x \o g \in Seq(Cells) /\ Len(x \o g) = Len(x) + Len(g)
          /\ Len(x) \in Nat /\ Len(g) \in Nat
          /\ \A k \in 1..Len(x) : (x \o g)[k] = x[k]
          /\ \A k \in 1..Len(g) : (x \o g)[Len(x) + k] = g[k]
      BY <2>1, ConcatCells
    <2> QED
      BY <2>2
  <1> HIDE DEF y
  <1>9. /\ Len(w) = Len(u) + Len(y) /\ Len(u) \in Nat
        /\ \A k \in 1..Len(y) : w[Len(u) + k] = y[k]
    <2>1. u \in Seq(Cells) /\ y \in Seq(Cells)
      BY <1>2, <1>8
    <2>2. /\ Len(u \o y) = Len(u) + Len(y) /\ Len(u) \in Nat
          /\ \A k \in 1..Len(y) : (u \o y)[Len(u) + k] = y[k]
      BY <2>1, ConcatCells
    <2> QED
      BY <1>2, <2>2
  <1>10. i + 1 < n => m <= Len(w)
    <2> SUFFICES ASSUME i + 1 < n PROVE m <= Len(w)
      OBVIOUS
    <2>1. CASE l = "listing"
      <3>1. Len(w) = Len(u) + (Len(t) + Len(g))
        BY <1>6, <1>8, <1>9, <2>1
      <3> QED
        BY <1>4, <1>8, <1>9, <3>1
    <2>2. CASE l # "listing"
      <3>1. Len(t) - Len(x) <= Len(g)
        BY <1>7, <2>2
      <3>2. Len(w) = Len(u) + (Len(x) + Len(g))
        BY <1>8, <1>9
      <3> QED
        BY <1>4, <1>8, <1>9, <3>1, <3>2
    <2> QED
      BY <2>1, <2>2
  <1>11. ASSUME NEW k \in m + 1..Len(w) PROVE w[k] # "%"
    <2> DEFINE p == Len(u)
               q == Len(x)
               r == Len(g)
               s == Len(t)
               j == k - p
    <2>1. /\ p \in Nat /\ q \in Nat /\ r \in Nat /\ s \in Nat
          /\ Len(w) = p + (q + r) /\ k \in (p + s) + 1..p + (q + r) /\ Len(y) = q + r
      BY <1>4, <1>8, <1>9
    <2> HIDE DEF p, q, r, s, m
    <2>2. j \in 1..q + r /\ p + j = k /\ j > s
      BY <2>1
    <2>3. w[k] = y[j]
      <3> HIDE DEF j
      <3> QED
        BY <1>9, <2>1, <2>2 DEF p
    <2>4. CASE j <= q
      <3>1. j \in 1..q /\ j \in s + 1..q
        BY <2>1, <2>2, <2>4
      <3>2. l # "listing"
        BY <1>6, <2>1, <2>2, <2>4 DEF q, s
      <3> HIDE DEF j
      <3> QED
        BY <1>5, <1>8, <2>3, <3>1, <3>2 DEF q, s
    <2>5. CASE j > q
      <3> DEFINE h == j - q
      <3>1. h \in 1..r /\ q + h = j
        BY <2>1, <2>2, <2>5
      <3> HIDE DEF h, j
      <3>2. y[q + h] = g[h] /\ g[h] = "."
        BY <1>3, <1>8, <3>1 DEF q, r
      <3>3. "." # "%"
        OBVIOUS
      <3> QED
        BY <2>3, <3>1, <3>2, <3>3
    <2> QED
      BY <2>1, <2>2, <2>4, <2>5
  <1> QED
    BY <1>10, <1>11 DEF w, n, u, t, v
-----------------------------------------------------------------------------
(***************************************************************************)
(* Where the scan is.                                                      *)
(***************************************************************************)
\* The text before the variable i + 1.
Here(i) == Lead(status, cmd, args, i)

\* Behind the variable i, and not past the variable i + 1.
Between(i) ==
    /\ tokenOpenPos = -1 /\ defaultDelimiterPos = -1
    /\ i < Number(cmd) => sI <= Len(Here(i))
    /\ \A k \in sI + 1..Len(Here(i)) : Here(i)[k] # "%"

\* In the token of the variable i + 1; the delimiter was seen if it was passed.
Inside(i) ==
    /\ i < Number(cmd)
    /\ LET p == Len(Here(i))
           v == Variables(cmd)[i + 1]
       IN  /\ tokenOpenPos = p
           /\ sI \in p + 1..p + Len(Token(v)) - 1
           /\ defaultDelimiterPos = IF v.default # <<>> /\ sI >= p + Bar(v) THEN p + Bar(v) - 1
                                                                          ELSE -1

\* What was done with the first i variables: printed, or found to be given if mandatory.
Checked(i) ==
    IF status = "listing"
    THEN /\ printed \in Seq([name : Seq(Cells), default : Seq(Cells), mandatory : BOOLEAN])
         /\ Len(printed) = i
         /\ \A k \in 1..i : LET v == Variables(cmd)[k]
                            IN  /\ printed[k].name = v.name
                                /\ v.default # <<>> => printed[k].default = v.default
    ELSE \A k \in 1..i : Variables(cmd)[k].mandatory => Variables(cmd)[k].name \in DOMAIN args

\* i variables are done.
At(i) == json = Text(status, cmd, args, i) /\ (Between(i) \/ Inside(i)) /\ Checked(i)

\* The help, or values that the scan puts in as they are.
Faithful == status = "listing" \/ (status = "replacing" /\ Readable(cmd, args))

ScanInv == Faithful => \E i \in 0..Number(cmd) : At(i)

\* What main is called with.
InputInv ==
    /\ cmd \in Commands \cup Other
    /\ status \in {"help", "replacing", "listing", "missing", "listed"} => cmd \in Commands
    /\ GoodArgs(args)

\* Between two variables the scan meets the next one.
LEMMA Waits ==
  ASSUME cmd \in Commands, GoodArgs(args), NEW i \in 0..Number(cmd), At(i), Between(i),
         sI \in Nat, Scanning
  PROVE  /\ Char = "%" => i < Number(cmd) /\ sI = Len(Here(i))
         /\ Char # "%" /\ i < Number(cmd) => sI < Len(Here(i))
         /\ Len(Here(i)) \in Nat \ {0}
  <1> DEFINE n == Number(cmd)
             u == Here(i)
             p == Len(u)
  <1>1. p \in Nat \ {0} /\ u \in Seq(Cells)
    BY LeadIsLong, Ends DEF Here
  <1>2. json = Text(status, cmd, args, i)
    BY DEF At
  <1>3. \A k \in sI + 1..p : u[k] # "%"
    BY DEF Between
  <1>n. n \in Nat
    BY Numbers
  <1>4. CASE i < n
    <2> DEFINE v == Variables(cmd)[i + 1]
               t == Token(v)
    <2>1. i \in 0..n - 1 /\ i + 1 \in 1..n
      BY <1>4, <1>n
    <2>2. Sound(v)
      BY <2>1, SoundVariables
    <2>3. t \in Seq(Cells) /\ Len(t) > 2 /\ t[1] = "%" /\ Len(t) \in Nat
      BY <2>2, TokenFacts
    <2> DEFINE rest == Rest(status, cmd, args, i)
    <2>4. json = (u \o t) \o rest /\ rest \in Seq(Cells)
      BY <1>2, <2>1, Around DEF Here
    <2> HIDE DEF t, u, n, p, rest
    <2>5. /\ \A k \in 1..Len(u) : json[k] = u[k]
          /\ \A k \in 1..Len(t) : json[Len(u) + k] = t[k]
      <3>1. u \in Seq(Cells)
        BY <1>1
      <3>3. t \in Seq(Cells)
        BY <2>3
      <3>4. rest \in Seq(Cells)
        BY <2>4
      <3>2. /\ \A k \in 1..Len(u) : ((u \o t) \o rest)[k] = u[k]
            /\ \A k \in 1..Len(t) : ((u \o t) \o rest)[Len(u) + k] = t[k]
        BY <3>1, <3>3, <3>4, Middle, SMTT(60)
      <3> QED
        BY <2>4, <3>2
    <2>6. sI <= p
      BY <1>4 DEF Between, n, p, u
    <2>7. json[p + 1] = "%"
      <3>1. 1 \in 1..Len(t)
        BY <2>3
      <3> QED
        BY <2>3, <2>5, <3>1 DEF p
    <2>8. sI < p => json[sI + 1] = u[sI + 1] /\ u[sI + 1] # "%"
      <3> SUFFICES ASSUME sI < p PROVE json[sI + 1] = u[sI + 1] /\ u[sI + 1] # "%"
        OBVIOUS
      <3>1. sI + 1 \in 1..p /\ sI + 1 \in sI + 1..p
        BY <1>1
      <3> QED
        BY <1>3, <2>5, <3>1 DEF p
    <2>9. sI < p \/ sI = p
      BY <1>1, <2>6
    <2> QED
      BY <1>1, <1>4, <2>7, <2>8, <2>9 DEF Char, p, u, n
  <1>5. CASE ~(i < n)
    <2>1. i = n
      BY <1>5, <1>n
    <2>2. json = u
      BY <1>2, <2>1, Ends DEF Here
    <2>3. sI < p
      BY <2>2 DEF Scanning
    <2>4. sI + 1 \in sI + 1..p
      BY <1>1, <2>3
    <2>5. json[sI + 1] # "%"
      BY <1>3, <2>2, <2>4
    <2> QED
      BY <1>1, <1>5, <2>5 DEF Char
  <1> QED
    BY <1>4, <1>5

-----------------------------------------------------------------------------
(***************************************************************************)
(* The scan inside of a token.                                             *)
(***************************************************************************)
\* Inside of a token the next cell is one of that token.
LEMMA InsideText ==
  ASSUME cmd \in Commands, GoodArgs(args), NEW i \in 0..Number(cmd) - 1, At(i), Inside(i)
  PROVE  LET u == Here(i)
             v == Variables(cmd)[i + 1]
             t == Token(v)
             r == Rest(status, cmd, args, i)
             p == Len(u)
             n == Len(t)
         IN  /\ Sound(v) /\ u \in Seq(Cells) /\ t \in Seq(Cells) /\ r \in Seq(Cells)
             /\ p \in Nat \ {0} /\ n \in Nat /\ n > 2
             /\ json = (u \o t) \o r
             /\ tokenOpenPos = p /\ sI \in p + 1..p + n - 1
             /\ Char = t[sI - p + 1] /\ sI - p + 1 \in 2..n
  <1> DEFINE u == Here(i)
             v == Variables(cmd)[i + 1]
             t == Token(v)
             r == Rest(status, cmd, args, i)
             p == Len(u)
             n == Len(t)
  <1>n. i \in 0..Number(cmd) /\ i + 1 \in 1..Number(cmd)
    BY Numbers
  <1>1. Sound(v)
    BY <1>n, SoundVariables
  <1>2. u \in Seq(Cells)
    BY Around DEF Here
  <1>3. t \in Seq(Cells)
    BY Around
  <1>4. r \in Seq(Cells)
    BY Around
  <1>5. json = (u \o t) \o r
    BY Around DEF Here, At
  <1>6. p \in Nat \ {0}
    BY <1>n, LeadIsLong DEF Here
  <1>7. n \in Nat /\ n > 2
    BY <1>1, TokenFacts
  <1>8. tokenOpenPos = p /\ sI \in p + 1..p + n - 1
    BY DEF Inside
  <1> HIDE DEF u, v, t, r
  <1>9. \A k \in 1..Len(t) : ((u \o t) \o r)[Len(u) + k] = t[k]
    BY <1>2, <1>3, <1>4, Middle
  <1> DEFINE k == sI - p + 1
  <1>10. k \in 1..n /\ k \in 2..n /\ p + k = sI + 1
    <2> HIDE DEF p, n
    <2> QED
      BY <1>6, <1>7, <1>8
  <1> HIDE DEF k
  <1>11. Char = t[k]
    BY <1>5, <1>9, <1>10 DEF Char
  <1> QED
    BY <1>1, <1>2, <1>3, <1>4, <1>5, <1>6, <1>7, <1>8, <1>10, <1>11 DEF u, v, t, r, k

\* A cell of the token that is not its last sign; the delimiter is met at one place only.
LEMMA PassInside ==
  ASSUME cmd \in Commands, GoodArgs(args), NEW i \in 0..Number(cmd) - 1, At(i), Inside(i),
         Char # "%"
  PROVE  LET v == Variables(cmd)[i + 1]
             p == Len(Here(i))
         IN  /\ sI + 1 \in p + 1..p + Len(Token(v)) - 1
             /\ Char = "|" <=> v.default # <<>> /\ sI = p + Bar(v) - 1
  <1> DEFINE v == Variables(cmd)[i + 1]
             t == Token(v)
             p == Len(Here(i))
             n == Len(t)
             k == sI - p + 1
             b == Bar(v)
  <1>1. /\ Sound(v)
        /\ p \in Nat \ {0} /\ n \in Nat /\ n > 2
        /\ sI \in p + 1..p + n - 1
        /\ Char = t[k] /\ k \in 2..n
    BY InsideText
  <1>2. /\ t[n] = "%"
        /\ \A j \in 2..n - 1 : t[j] = "|" <=> v.default # <<>> /\ j = b
    BY <1>1, TokenFacts
  <1>b. b \in 3..16
    BY <1>1, NamedFacts
  <1> HIDE DEF p, n, t, v, b
  <1>3. k \in 2..n - 1 /\ sI + 1 \in p + 1..p + n - 1
    <2>1. k # n
      BY <1>1, <1>2
    <2> QED
      BY <1>1, <2>1
  <1>4. k = b <=> sI = p + b - 1
    BY <1>1, <1>b
  <1> HIDE DEF k
  <1>5. Char = "|" <=> v.default # <<>> /\ k = b
    BY <1>1, <1>2, <1>3
  <1> QED
    BY <1>3, <1>4, <1>5 DEF p, n, t, v, b

\* At the closing sign the scan reads the name, the mark and the default of the variable, and
\* the text around it is the text around what is put in its place.
LEMMA Reads ==
  ASSUME cmd \in Commands, GoodArgs(args), NEW i \in 0..Number(cmd) - 1, At(i), Inside(i),
         Char = "%"
  PROVE  LET v == Variables(cmd)[i + 1]
         IN  /\ sI + 1 = Len(Here(i)) + Len(Token(v))
             /\ Name = v.name /\ (IsMandatory <=> v.mandatory)
             /\ v.default # <<>> => defaultDelimiterPos > 0 /\ ReadDefault = v.default
             /\ v.default = <<>> => defaultDelimiterPos = -1
             /\ Substr(0, tokenOpenPos) = Here(i)
             /\ SubSeq(json, sI + 2, Len(json)) = Rest(status, cmd, args, i)
  <1> DEFINE u == Here(i)
             v == Variables(cmd)[i + 1]
             t == Token(v)
             r == Rest(status, cmd, args, i)
             p == Len(u)
             n == Len(t)
             k == sI - p + 1
             b == Bar(v)
             d == v.default
             o == tokenOpenPos
             e == defaultDelimiterPos
  <1>s. Sound(v)
    BY InsideText
  <1>1. u \in Seq(Cells) /\ t \in Seq(Cells) /\ r \in Seq(Cells) /\ json = (u \o t) \o r
    BY InsideText
  <1>2. /\ p \in Nat \ {0} /\ n \in Nat /\ n > 2
        /\ o = p /\ sI \in p + 1..p + n - 1
        /\ Char = t[k] /\ k \in 2..n
    BY InsideText
  <1>3. /\ n = IF d = <<>> THEN b ELSE b + Len(d) + 1
        /\ \A j \in 2..n - 1 : t[j] # "%"
        /\ d = <<>> => SubSeq(t, 2, n - 1) = Named(v)
        /\ d # <<>> => /\ b < n - 1
                       /\ SubSeq(t, 2, b - 1) = Named(v)
                       /\ SubSeq(t, b + 1, n - 1) = d
    BY <1>s, TokenFacts
  <1>4. /\ b \in 3..16 /\ Named(v) # <<>>
        /\ Named(v)[1] = "!" <=> v.mandatory
        /\ v.mandatory => Tail(Named(v)) = v.name
        /\ ~v.mandatory => Named(v) = v.name
    BY <1>s, NamedFacts
  <1>5. e = IF d # <<>> /\ sI >= p + b THEN p + b - 1 ELSE -1
    BY DEF Inside
  <1>6. /\ \A x \in 1..n + 1, y \in 0..n : SubSeq(json, p + x, p + y) = SubSeq(t, x, y)
        /\ SubSeq(json, 1, p) = u
        /\ SubSeq(json, p + n + 1, Len(json)) = r
    <2> HIDE DEF u, t, r
    <2>1. u \in Seq(Cells)
      BY <1>1
    <2>2. t \in Seq(Cells)
      BY <1>1
    <2>3. r \in Seq(Cells)
      BY <1>1
    <2>4. \A x \in 1..Len(t) + 1, y \in 0..Len(t) :
             SubSeq((u \o t) \o r, Len(u) + x, Len(u) + y) = SubSeq(t, x, y)
      BY <2>1, <2>2, <2>3, MiddlePart
    <2>5. SubSeq((u \o t) \o r, 1, Len(u)) = u
      BY <2>1, <2>2, <2>3, Middle
    <2>6. SubSeq((u \o t) \o r, Len(u) + Len(t) + 1, Len((u \o t) \o r)) = r
      BY <2>1, <2>2, <2>3, Middle
    <2> QED
      BY <1>1, <2>4, <2>5, <2>6
  <1> HIDE DEF u, v, t, r, p, n, b, d
  <1>7. sI = p + n - 1
    <2>1. ~(k \in 2..n - 1)
      BY <1>2, <1>3
    <2> QED
      BY <1>2, <2>1
  <1>8. ASSUME d # <<>> PROVE var = Named(v) /\ e > 0 /\ ReadDefault = d
    <2>1. b < n - 1 /\ SubSeq(t, 2, b - 1) = Named(v) /\ SubSeq(t, b + 1, n - 1) = d
      BY <1>3, <1>8
    <2>2. e = p + b - 1 /\ e > 0 /\ e >= 0
      <3>1. sI >= p + b
        BY <1>2, <1>4, <1>7, <2>1
      <3>2. e = p + b - 1
        BY <1>5, <1>8, <3>1
      <3> QED
        BY <1>2, <1>4, <3>2
    <2>3. var = Named(v)
      <3>1. var = SubSeq(json, (o + 1) + 1, (o + 1) + (e - o - 1))
        BY <2>2 DEF var, Substr
      <3>2. (o + 1) + 1 = p + 2 /\ (o + 1) + (e - o - 1) = p + (b - 1)
        BY <1>2, <1>4, <2>2
      <3>3. 2 \in 1..n + 1 /\ b - 1 \in 0..n
        <4>1. n \in Nat /\ n > 2 /\ b \in 3..16 /\ b < n - 1
          BY <1>2, <1>4, <2>1
        <4> QED
          BY <4>1
      <3> HIDE DEF o, e
      <3>4. SubSeq(json, p + 2, p + (b - 1)) = SubSeq(t, 2, b - 1)
        BY <1>6, <3>3
      <3> QED
        BY <2>1, <3>1, <3>2, <3>4
    <2>4. ReadDefault = d
      <3>1. ReadDefault = SubSeq(json, (e + 1) + 1, (e + 1) + (sI - e - 1))
        BY <2>2 DEF ReadDefault, Substr
      <3>2. (e + 1) + 1 = p + (b + 1) /\ (e + 1) + (sI - e - 1) = p + (n - 1)
        BY <1>2, <1>4, <1>7, <2>2
      <3>3. b + 1 \in 1..n + 1 /\ n - 1 \in 0..n
        BY <1>2, <1>4, <2>1
      <3> HIDE DEF o, e
      <3>4. SubSeq(json, p + (b + 1), p + (n - 1)) = SubSeq(t, b + 1, n - 1)
        BY <1>6, <3>3
      <3> QED
        BY <2>1, <3>1, <3>2, <3>4
    <2> QED
      BY <2>2, <2>3, <2>4
  <1>9. ASSUME d = <<>> PROVE var = Named(v) /\ e = -1
    <2>1. e = -1 /\ SubSeq(t, 2, n - 1) = Named(v)
      BY <1>3, <1>5, <1>9
    <2>3. var = Named(v)
      <3>1. var = SubSeq(json, (o + 1) + 1, (o + 1) + (sI - o - 1))
        BY <2>1 DEF var, Substr
      <3>2. (o + 1) + 1 = p + 2 /\ (o + 1) + (sI - o - 1) = p + (n - 1)
        BY <1>2, <1>7
      <3>3. 2 \in 1..n + 1 /\ n - 1 \in 0..n
        BY <1>2
      <3> HIDE DEF o, e
      <3>4. SubSeq(json, p + 2, p + (n - 1)) = SubSeq(t, 2, n - 1)
        BY <1>6, <3>3
      <3> QED
        BY <2>1, <3>1, <3>2, <3>4
    <2> QED
      BY <2>1, <2>3
  <1>10. /\ var = Named(v)
         /\ d # <<>> => e > 0 /\ ReadDefault = d
         /\ d = <<>> => e = -1
    BY <1>8, <1>9
  <1>11. IsMandatory <=> v.mandatory
    BY <1>4, <1>10 DEF IsMandatory
  <1>12. Name = v.name
    BY <1>4, <1>10, <1>11 DEF Name
  <1>13. Substr(0, o) = u
    <2>1. Substr(0, o) = SubSeq(json, 0 + 1, 0 + o)
      BY DEF Substr
    <2>2. 0 + 1 = 1 /\ 0 + o = p
      BY <1>2
    <2> QED
      BY <1>6, <2>1, <2>2
  <1>14. SubSeq(json, sI + 2, Len(json)) = r
    <2>1. sI + 2 = p + n + 1
      BY <1>2, <1>7
    <2> QED
      BY <1>6, <2>1
  <1>15. sI + 1 = p + n
    BY <1>2, <1>7
  <1> QED
    BY <1>10, <1>11, <1>12, <1>13, <1>14, <1>15 DEF u, v, t, r, p, n, d

-----------------------------------------------------------------------------
(***************************************************************************)
(* The inductive invariant, and the steps of the scan.                     *)
(***************************************************************************)
\* The types of its local variables.
TextInv ==
    /\ status \in Final \cup {"main", "help", "replacing", "listing"}
    /\ json \in Seq(Cells) /\ defaultValue \in Seq(Cells)
    /\ sI \in Nat
    /\ tokenOpenPos \in Nat \cup {-1} /\ tokenOpenPos < sI
    /\ defaultDelimiterPos \in Nat \cup {-1} /\ defaultDelimiterPos < sI
    /\ status \in {"main", "help"} => sI = 0

\* What has been printed and sent.
OutputInv ==
    /\ status \notin {"listing", "listed"} => printed = <<>>
    /\ status \notin {"notFound", "answered", "aborted", "undecryptable"} => sent = <<>>
    /\ Len(sent) <= 1

\* The outcome.
EndInv ==
    /\ HelpIsComplete
    /\ SendsWhatWasAsked
    /\ RefusesOnlyIncomplete

Inv == InputInv /\ TextInv /\ OutputInv /\ ScanInv /\ EndInv

\* The text that is looked up has no variable replaced.
LEMMA LookupScans ==
  ASSUME InputInv, TextInv, OutputInv, Lookup
  PROVE  ScanInv'
  <1>1. /\ cmd \in Commands /\ GoodArgs(args) /\ sI = 0 /\ tokenOpenPos = -1
        /\ defaultDelimiterPos = -1 /\ printed = <<>>
    <2>1. status \in {"main", "help"}
      BY DEF Lookup
    <2>2. sI = 0
      BY <2>1 DEF TextInv
    <2>3. tokenOpenPos = -1 /\ defaultDelimiterPos = -1
      BY <2>2 DEF TextInv
    <2>4. printed = <<>>
      BY <2>1 DEF OutputInv
    <2> QED
      BY <2>2, <2>3, <2>4 DEF InputInv, Lookup
  <1>2. /\ cmd' = cmd /\ args' = args /\ sI' = 0 /\ tokenOpenPos' = -1 /\ defaultDelimiterPos' = -1
        /\ printed' = <<>> /\ json' = Template(cmd)
    BY <1>1 DEF Lookup, input
  <1>3. json' = Text(status', cmd, args, 0)
    BY <1>1, <1>2, Ends
  <1>4. Here(0)' = Gap(cmd, 1)
    BY <1>1, <1>2, Ends DEF Here
  <1>5. 1 \in 1..Number(cmd) + 1 /\ "." \in Cells /\ 0 \in 0..Number(cmd)
    BY <1>1, Numbers, Signs
  <1>6. /\ Len(Gap(cmd, 1)) \in Nat
        /\ \A k \in 1..Len(Gap(cmd, 1)) : Gap(cmd, 1)[k] = "."
    <2>1. Gap(cmd, 1) \in Seq(Cells) /\ \A k \in 1..Len(Gap(cmd, 1)) : Gap(cmd, 1)[k] = "."
      BY <1>1, <1>5, GapFacts
    <2> QED
      BY <2>1, LenProperties
  <1>7. Between(0)'
    <2> DEFINE g == Gap(cmd, 1)
    <2>1. \A k \in 1..Len(g) : g[k] # "%"
      <3>1. "." # "%"
        OBVIOUS
      <3> HIDE DEF g
      <3> QED
        BY <1>6, <3>1 DEF g
    <2>2. sI' + 1 = 1 /\ sI' <= Len(g)
      BY <1>2, <1>6
    <2> HIDE DEF g
    <2>3. Here(0)' = g
      BY <1>4 DEF g
    <2> QED
      BY <1>2, <2>1, <2>2, <2>3 DEF Between
  <1>8. Checked(0)'
    <2>1. 1..0 = {} /\ Len(<<>>) = 0
      OBVIOUS
    <2>2. <<>> \in Seq([name : Seq(Cells), default : Seq(Cells), mandatory : BOOLEAN])
      OBVIOUS
    <2> QED
      BY <1>2, <2>1, <2>2 DEF Checked
  <1>9. At(0)'
    BY <1>2, <1>3, <1>7, <1>8 DEF At
  <1> QED
    BY <1>2, <1>5, <1>9 DEF ScanInv

\* The steps of the scan itself.
LEMMA PassScans ==
  ASSUME InputInv, TextInv, ScanInv, Pass
  PROVE  ScanInv'
  <1> SUFFICES ASSUME Faithful'
               PROVE  (\E i \in 0..Number(cmd) : At(i))'
    BY DEF ScanInv
  <1>1. /\ status' = status /\ cmd' = cmd /\ args' = args /\ json' = json /\ printed' = printed
        /\ tokenOpenPos' = tokenOpenPos /\ sI' = sI + 1
        /\ Char # "%" /\ Scanning
    BY DEF Pass, input
  <1>2. status \in {"listing", "replacing"} /\ cmd \in Commands /\ GoodArgs(args) /\ sI \in Nat
    BY <1>1 DEF Scanning, InputInv, TextInv
  <1>3. Faithful
    BY <1>1 DEF Faithful
  <1>4. PICK i \in 0..Number(cmd) : At(i)
    BY <1>3 DEF ScanInv
  <1>5. Here(i)' = Here(i) /\ (Checked(i)' <=> Checked(i))
    BY <1>1 DEF Here, Checked
  <1>6. json' = Text(status', cmd', args', i)
    BY <1>1, <1>4 DEF At
  <1>n. Number(cmd) \in Nat
    BY <1>2, Numbers
  <1>7. CASE Between(i)
    <2>1. /\ i < Number(cmd) => sI < Len(Here(i))
          /\ Len(Here(i)) \in Nat
      BY <1>1, <1>2, <1>4, <1>7, Waits
    <2>2. tokenOpenPos' = -1 /\ defaultDelimiterPos' = -1
      BY <1>1, <1>7 DEF Pass, Between
    <2>3. i < Number(cmd) => sI' <= Len(Here(i))
      BY <1>1, <1>2, <2>1
    <2>4. \A k \in sI' + 1..Len(Here(i)) : Here(i)[k] # "%"
      <3>1. \A k \in sI' + 1..Len(Here(i)) : k \in sI + 1..Len(Here(i))
        BY <1>1, <1>2, <2>1
      <3> QED
        BY <1>7, <3>1 DEF Between
    <2>5. Between(i)'
      BY <1>1, <1>5, <2>2, <2>3, <2>4 DEF Between
    <2> QED
      BY <1>1, <1>4, <1>5, <1>6, <2>5 DEF At
  <1>8. CASE Inside(i)
    <2> DEFINE v == Variables(cmd)[i + 1]
               p == Len(Here(i))
               n == Len(Token(v))
               b == Bar(v)
               d == v.default # <<>>
    <2>1. i \in 0..Number(cmd) - 1
      BY <1>8, <1>n DEF Inside
    <2>2. sI + 1 \in p + 1..p + n - 1 /\ (Char = "|" <=> d /\ sI = p + b - 1)
      BY <1>1, <1>2, <1>4, <1>8, <2>1, PassInside
    <2>3. p \in Nat \ {0} /\ n \in Nat /\ tokenOpenPos = p /\ Sound(v)
      BY <1>2, <1>4, <1>8, <2>1, InsideText
    <2>4. b \in 3..16
      BY <2>3, NamedFacts
    <2>5. defaultDelimiterPos = IF d /\ sI >= p + b THEN p + b - 1 ELSE -1
      BY <1>8 DEF Inside
    <2>6. defaultDelimiterPos' = IF Char = "|" THEN sI ELSE defaultDelimiterPos
      BY <2>3 DEF Pass
    <2> HIDE DEF v, p, n, b, d
    <2>7. defaultDelimiterPos' = IF d /\ sI' >= p + b THEN p + b - 1 ELSE -1
      <3>1. sI' >= p + b <=> sI >= p + b \/ sI = p + b - 1
        BY <1>1, <1>2, <2>3, <2>4
      <3>2. sI = p + b - 1 => ~(sI >= p + b)
        BY <1>2, <2>3, <2>4
      <3> QED
        BY <2>2, <2>5, <2>6, <3>1, <3>2
    <2>8. Inside(i)'
      BY <1>1, <1>5, <1>8, <2>2, <2>3, <2>7 DEF Inside, v, p, n, b, d
    <2> QED
      BY <1>1, <1>4, <1>5, <1>6, <2>8 DEF At
  <1> QED
    BY <1>4, <1>7, <1>8 DEF At

\* The sign that is met between two variables is the first one of the next token.
LEMMA OpenTokenScans ==
  ASSUME InputInv, TextInv, ScanInv, OpenToken
  PROVE  ScanInv'
  <1> SUFFICES ASSUME Faithful'
               PROVE  (\E i \in 0..Number(cmd) : At(i))'
    BY DEF ScanInv
  <1>1. /\ status' = status /\ cmd' = cmd /\ args' = args /\ json' = json /\ printed' = printed
        /\ tokenOpenPos' = sI /\ sI' = sI + 1 /\ defaultDelimiterPos' = defaultDelimiterPos
        /\ Char = "%" /\ Scanning /\ tokenOpenPos < 0
    BY DEF OpenToken, input
  <1>2. status \in {"listing", "replacing"} /\ cmd \in Commands /\ GoodArgs(args) /\ sI \in Nat
    BY <1>1 DEF Scanning, InputInv, TextInv
  <1>3. Faithful
    BY <1>1 DEF Faithful
  <1>4. PICK i \in 0..Number(cmd) : At(i)
    BY <1>3 DEF ScanInv
  <1>n. Number(cmd) \in Nat
    BY <1>2, Numbers
  <1>5. Between(i)
    <2> SUFFICES ASSUME Inside(i) PROVE FALSE
      BY <1>4 DEF At
    <2>1. i \in 0..Number(cmd) - 1
      BY <1>n DEF Inside
    <2>2. tokenOpenPos = Len(Here(i)) /\ Len(Here(i)) \in Nat \ {0}
      BY <1>2, <1>4, <2>1, InsideText
    <2> QED
      BY <1>1, <2>2
  <1>6. i < Number(cmd) /\ sI = Len(Here(i)) /\ Len(Here(i)) \in Nat
    BY <1>1, <1>2, <1>4, <1>5, Waits
  <1>7. Here(i)' = Here(i) /\ (Checked(i)' <=> Checked(i))
    BY <1>1 DEF Here, Checked
  <1> DEFINE v == Variables(cmd)[i + 1]
             p == Len(Here(i))
             n == Len(Token(v))
             b == Bar(v)
  <1>8. n \in Nat /\ n > 2 /\ b \in 3..16
    <2>1. i + 1 \in 1..Number(cmd)
      BY <1>6, <1>n
    <2>2. Sound(v)
      BY <1>2, <2>1, SoundVariables
    <2> QED
      BY <2>2, TokenFacts, NamedFacts
  <1>9. defaultDelimiterPos' = -1
    BY <1>1, <1>5 DEF Between
  <1>10. tokenOpenPos' = p /\ sI' \in p + 1..p + n - 1 /\ ~(sI' >= p + b)
    <2> HIDE DEF n, b, v
    <2> QED
      BY <1>1, <1>6, <1>8
  <1>11. Inside(i)'
    BY <1>1, <1>6, <1>7, <1>9, <1>10 DEF Inside
  <1>12. json' = Text(status', cmd', args', i)
    BY <1>1, <1>4 DEF At
  <1> QED
    BY <1>1, <1>4, <1>7, <1>11, <1>12 DEF At

\* A sign that closes a token is met inside of one.
LEMMA ClosesInside ==
  ASSUME InputInv, TextInv, ScanInv, Closing, Faithful
  PROVE  \E i \in 0..Number(cmd) - 1 : At(i) /\ Inside(i)
  <1>1. /\ status \in {"listing", "replacing"} /\ cmd \in Commands /\ GoodArgs(args)
        /\ tokenOpenPos >= 0
    BY DEF Faithful, InputInv, Closing
  <1>2. PICK i \in 0..Number(cmd) : At(i)
    BY DEF ScanInv
  <1>3. ~Between(i)
    BY <1>1 DEF Between
  <1>4. Inside(i)
    BY <1>2, <1>3 DEF At
  <1>5. i \in 0..Number(cmd) - 1
    BY <1>1, <1>4, Numbers DEF Inside
  <1> QED
    BY <1>2, <1>4, <1>5

\* Behind the sign the scan is between this variable and the next one.
LEMMA Closes ==
  ASSUME cmd \in Commands, GoodArgs(args), NEW i \in 0..Number(cmd) - 1, At(i), Inside(i),
         Char = "%", Faithful, CloseToken,
         status' = status, cmd' = cmd, args' = args
  PROVE  Between(i + 1)'
  <1> DEFINE w == Lead(status, cmd, args, i + 1)
             m == Len(Here(i)) + Len(Token(Variables(cmd)[i + 1]))
  <1>1. sI + 1 = m
    BY Reads
  <1>2. status = "listing" \/ Readable(cmd, args)
    BY DEF Faithful
  <1>3. /\ i + 1 < Number(cmd) => m <= Len(w)
        /\ \A k \in m + 1..Len(w) : w[k] # "%"
    BY <1>2, Beyond DEF Here
  <1>4. tokenOpenPos' = -1 /\ defaultDelimiterPos' = -1 /\ sI' = m
    BY <1>1 DEF CloseToken
  <1>5. Here(i + 1)' = w
    BY DEF Here
  <1> HIDE DEF w, m
  <1> QED
    BY <1>3, <1>4, <1>5 DEF Between

\* Replacing a variable leaves the text with one variable more replaced.
LEMMA ReplaceScans ==
  ASSUME InputInv, TextInv, ScanInv, Replace
  PROVE  ScanInv'
  <1> SUFFICES ASSUME Faithful'
               PROVE  (\E i \in 0..Number(cmd) : At(i))'
    BY DEF ScanInv
  <1>1. /\ status = "replacing" /\ status' = status /\ cmd' = cmd /\ args' = args
        /\ Closing /\ Char = "%" /\ CloseToken
        /\ Name \in DOMAIN args \/ ~IsMandatory
        /\ json' = Substr(0, tokenOpenPos) \o Inserted \o SubSeq(json, sI + 2, Len(json))
    BY DEF Replace, input, Closing, Splice
  <1>2. Faithful /\ cmd \in Commands /\ GoodArgs(args)
    BY <1>1 DEF Faithful, InputInv
  <1>3. PICK i \in 0..Number(cmd) - 1 : At(i) /\ Inside(i)
    BY <1>1, <1>2, ClosesInside
  <1> DEFINE v == Variables(cmd)[i + 1]
             x == Filling(status, v, args)
  <1>4. /\ Name = v.name /\ (IsMandatory <=> v.mandatory)
        /\ v.default # <<>> => defaultDelimiterPos > 0 /\ ReadDefault = v.default
        /\ v.default = <<>> => defaultDelimiterPos = -1
        /\ Substr(0, tokenOpenPos) = Here(i)
        /\ SubSeq(json, sI + 2, Len(json)) = Rest(status, cmd, args, i)
    BY <1>1, <1>2, <1>3, Reads
  <1>5. Inserted = x
    <2>1. x = IF v.name \in DOMAIN args THEN args[v.name] ELSE v.default
      BY <1>1 DEF Filling, Value
    <2> HIDE DEF x
    <2>2. CASE Name \in DOMAIN args
      BY <1>4, <2>1, <2>2 DEF Inserted
    <2>3. CASE Name \notin DOMAIN args /\ v.default # <<>>
      <3>1. defaultDelimiterPos > 0 /\ ReadDefault = v.default
        BY <1>4, <2>3
      <3>2. Inserted = ReadDefault
        BY <2>3, <3>1 DEF Inserted
      <3> QED
        BY <1>4, <2>1, <2>3, <3>1, <3>2
    <2>4. CASE Name \notin DOMAIN args /\ v.default = <<>>
      <3>1. ~(defaultDelimiterPos > 0)
        BY <1>4, <2>4
      <3>2. Inserted = <<>>
        BY <2>4, <3>1 DEF Inserted
      <3> QED
        BY <1>4, <2>1, <2>4, <3>2
    <2> QED
      BY <2>2, <2>3, <2>4
  <1>6. json' = (Here(i) \o x) \o Rest(status, cmd, args, i)
    BY <1>1, <1>4, <1>5
  <1>7. json' = Text(status', cmd', args', i + 1)
    <2>1. Text(status, cmd, args, i + 1) = (Here(i) \o x) \o Rest(status, cmd, args, i)
      BY <1>2, Around DEF Here
    <2> QED
      BY <1>1, <1>6, <2>1
  <1>8. Between(i + 1)'
    BY <1>1, <1>2, <1>3, Closes
  <1>9. Checked(i + 1)'
    <2>1. \A k \in 1..i : Variables(cmd)[k].mandatory => Variables(cmd)[k].name \in DOMAIN args
      BY <1>1, <1>3 DEF At, Checked
    <2>2. v.mandatory => v.name \in DOMAIN args
      BY <1>1, <1>4
    <2>3. \A k \in 1..i + 1 : k \in 1..i \/ k = i + 1
      BY <1>2, Numbers
    <2>4. \A k \in 1..i + 1 : Variables(cmd)[k].mandatory => Variables(cmd)[k].name \in DOMAIN args
      BY <2>1, <2>2, <2>3
    <2> QED
      BY <1>1, <2>4 DEF Checked
  <1>10. At(i + 1)'
    BY <1>7, <1>8, <1>9 DEF At
  <1>11. i + 1 \in 0..Number(cmd)'
    <2>1. i + 1 \in 0..Number(cmd)
      BY <1>2, Numbers
    <2> QED
      BY <1>1, <2>1
  <1> QED
    BY <1>10, <1>11

\* The help prints the next variable, and leaves the text as it is.
LEMMA ListScans ==
  ASSUME InputInv, TextInv, ScanInv, List
  PROVE  ScanInv'
  <1> SUFFICES ASSUME Faithful'
               PROVE  (\E i \in 0..Number(cmd) : At(i))'
    BY DEF ScanInv
  <1> DEFINE record == [name |-> Name, default |-> ReadDefault,
                        mandatory |-> ReadDefault = <<>> /\ IsMandatory]
             S == [name : Seq(Cells), default : Seq(Cells), mandatory : BOOLEAN]
  <1>1. /\ status = "listing" /\ status' = status /\ cmd' = cmd /\ args' = args /\ json' = json
        /\ Closing /\ Char = "%" /\ CloseToken
        /\ printed' = Append(printed, record)
    BY DEF List, input, Closing
  <1>2. Faithful /\ cmd \in Commands /\ GoodArgs(args)
    BY <1>1 DEF Faithful, InputInv
  <1>3. PICK i \in 0..Number(cmd) - 1 : At(i) /\ Inside(i)
    BY <1>1, <1>2, ClosesInside
  <1>n. i \in Nat /\ i + 1 \in 1..Number(cmd) /\ i + 1 \in 0..Number(cmd)
    BY <1>2, Numbers
  <1> DEFINE v == Variables(cmd)[i + 1]
  <1>s. Sound(v)
    BY <1>2, <1>n, SoundVariables
  <1>4. /\ Name = v.name
        /\ v.default # <<>> => ReadDefault = v.default
        /\ v.default = <<>> => defaultDelimiterPos = -1
    BY <1>1, <1>2, <1>3, Reads
  <1>5. /\ printed \in Seq(S) /\ Len(printed) = i
        /\ \A k \in 1..i : LET u == Variables(cmd)[k]
                            IN  /\ printed[k].name = u.name
                                /\ u.default # <<>> => printed[k].default = u.default
    BY <1>1, <1>3 DEF At, Checked
  <1>6. record \in S
    <2>1. v.name \in Seq(Cells) /\ v.default \in Seq(Cells)
      BY <1>s, CellsOfText DEF Sound
    <2>2. ReadDefault \in Seq(Cells)
      <3>1. CASE v.default # <<>>
        BY <1>4, <2>1, <3>1
      <3>2. CASE v.default = <<>>
        <4>1. ReadDefault = defaultValue
          BY <1>4, <3>2 DEF ReadDefault
        <4> QED
          BY <4>1 DEF TextInv
      <3> QED
        BY <3>1, <3>2
    <2>3. Name \in Seq(Cells)
      BY <1>4, <2>1
    <2>4. (ReadDefault = <<>> /\ IsMandatory) \in BOOLEAN
      OBVIOUS
    <2> QED
      BY <2>2, <2>3, <2>4
  <1>7. record.name = v.name /\ (v.default # <<>> => record.default = v.default)
    BY <1>4
  <1> HIDE DEF record, S
  <1>8. /\ printed' \in Seq(S) /\ Len(printed') = i + 1
        /\ \A k \in 1..i : printed'[k] = printed[k]
        /\ printed'[i + 1] = record
    BY <1>1, <1>5, <1>6, AppendProperties
  <1>9. ASSUME NEW k \in 1..i + 1
        PROVE  LET u == Variables(cmd)[k]
               IN  /\ printed'[k].name = u.name
                   /\ u.default # <<>> => printed'[k].default = u.default
    <2>1. CASE k \in 1..i
      BY <1>5, <1>8, <2>1
    <2>2. CASE k = i + 1
      BY <1>7, <1>8, <2>2
    <2> QED
      BY <1>n, <2>1, <2>2
  <1>10. Checked(i + 1)'
    BY <1>1, <1>8, <1>9 DEF Checked, S
  <1>11. json' = Text(status', cmd', args', i + 1)
    <2>1. Filling(status, v, args) = Token(v)
      BY <1>1 DEF Filling
    <2>2. Text(status, cmd, args, i + 1) = Text(status, cmd, args, i)
      <3> DEFINE u == Lead(status, cmd, args, i)
                 r == Rest(status, cmd, args, i)
      <3>1. Text(status, cmd, args, i) = (u \o Token(v)) \o r
        BY <1>2, Around
      <3>2. Text(status, cmd, args, i + 1) = (u \o Filling(status, v, args)) \o r
        BY <1>2, Around
      <3> QED
        BY <2>1, <3>1, <3>2
    <2> QED
      BY <1>1, <1>3, <2>2 DEF At
  <1>12. Between(i + 1)'
    BY <1>1, <1>2, <1>3, Closes
  <1>13. At(i + 1)'
    BY <1>10, <1>11, <1>12 DEF At
  <1> QED
    BY <1>1, <1>n, <1>13

-----------------------------------------------------------------------------
(***************************************************************************)
(* The inductive invariant: initial states, and the steps of the other     *)
(* parts.                                                                  *)
(***************************************************************************)
\* Raw json and unknown words are no commands of the table.
LEMMA OtherCommands == Other \cap Commands = {}
  BY DEF Other, Commands, vCommands

\* The arguments that main is called with are texts.
LEMMA InitInputs ==
  ASSUME Init
  PROVE  InputInv
  <1>1. GoodArgs(args)
    <2>1. CASE args = <<>>
      <3>1. DOMAIN args = {}
        BY <2>1
      <3> QED
        BY <3>1 DEF GoodArgs
    <2>2. CASE args \in Arguments(cmd)
      <3> DEFINE chosen == UNION {[given -> Values] : given \in SUBSET Names(cmd)}
      <3>1. ASSUME NEW a \in chosen PROVE GoodArgs(a)
        <4>1. PICK given \in SUBSET Names(cmd) : a \in [given -> Values]
          BY <3>1
        <4> QED
          BY <4>1, CliAssumption DEF GoodArgs
      <3>2. ASSUME NEW a \in chosen, NEW p \in Passwords PROVE GoodArgs(WithPassword(a, p))
        <4>1. GoodArgs(a) /\ p \in Seq(Cells)
          BY <3>1, CliAssumption
        <4> QED
          BY <4>1 DEF GoodArgs, WithPassword
      <3>3. \/ args \in chosen
            \/ \E a \in chosen, p \in Passwords : args = WithPassword(a, p)
        BY <2>2 DEF Arguments
      <3> HIDE DEF chosen
      <3> QED
        BY <3>1, <3>2, <3>3
    <2>3. args = <<>> \/ args \in Arguments(cmd)
      BY DEF Init
    <2> QED
      BY <2>1, <2>2, <2>3
  <1>2. status \in {"main", "help"}
    BY DEF Init
  <1>3. cmd \in Commands \cup Other /\ (status = "help" => cmd \in Commands)
    BY DEF Init
  <1> QED
    BY <1>1, <1>2, <1>3 DEF InputInv

\* The invariant holds when main starts.
LEMMA InitInv ==
  ASSUME Init
  PROVE  Inv
  <1>1. InputInv
    BY InitInputs
  <1>2. /\ status \in {"main", "help"} /\ json = <<>> /\ sI = 0 /\ tokenOpenPos = -1
        /\ defaultDelimiterPos = -1 /\ defaultValue = <<>> /\ printed = <<>> /\ sent = <<>>
    BY DEF Init
  <1>3. <<>> \in Seq(Cells) /\ Len(<<>>) = 0
    OBVIOUS
  <1>4. TextInv
    BY <1>2, <1>3 DEF TextInv, Final
  <1>5. OutputInv
    BY <1>2, <1>3 DEF OutputInv
  <1>6. ScanInv
    BY <1>2 DEF ScanInv, Faithful
  <1>7. EndInv
    BY <1>2 DEF EndInv, HelpIsComplete, SendsWhatWasAsked, RefusesOnlyIncomplete
  <1> QED
    BY <1>1, <1>4, <1>5, <1>6, <1>7 DEF Inv

\* The input of a call does not change, and its end is final.
LEMMA InputStep ==
  ASSUME InputInv, [Next]_vars
  PROVE  InputInv' /\ cmd' = cmd /\ args' = args
  <1>1. cmd' = cmd /\ args' = args
    BY DEF Next, vars, input, NoDevice, Lookup, NotFound, Pass, OpenToken, Replace,
           MissingArgument, List, Listed, NeedsPassword, Send, Stop, Finished
  <1>2. \/ status' = status
        \/ status = "main" /\ status' \in {"noDevice", "notFound", "aborted"}
        \/ status = "main" /\ cmd \in Commands /\ status' = "replacing"
        \/ status = "help" /\ status' = "listing"
        \/ status = "listing" /\ status' = "listed"
        \/ /\ status = "replacing"
           /\ status' \in {"missing", "needsPassword", "answered", "aborted", "undecryptable"}
    BY DEF Next, vars, NoDevice, Lookup, NotFound, Pass, OpenToken, Replace,
           MissingArgument, List, Listed, NeedsPassword, Send, Stop, Finished, Replaced
  <1>3. InputInv'
    BY <1>1, <1>2 DEF InputInv, GoodArgs
  <1> QED
    BY <1>1, <1>3

\* The local variables of main keep their types.
LEMMA TextStep ==
  ASSUME InputInv, TextInv, [Next]_vars
  PROVE  TextInv'
  <1>1. /\ json \in Seq(Cells) /\ defaultValue \in Seq(Cells) /\ sI \in Nat
        /\ tokenOpenPos \in Nat \cup {-1} /\ tokenOpenPos < sI
        /\ defaultDelimiterPos \in Nat \cup {-1} /\ defaultDelimiterPos < sI
    BY DEF TextInv
  <1>2. ASSUME Closing PROVE ReadDefault \in Seq(Cells)
    <2>1. CASE defaultDelimiterPos >= 0
      <3> DEFINE i == (defaultDelimiterPos + 1) + 1
                 j == (defaultDelimiterPos + 1) + (sI - defaultDelimiterPos - 1)
      <3>1. ReadDefault = SubSeq(json, i, j)
        BY <2>1 DEF ReadDefault, Substr
      <3>2. i \in Nat \ {0} /\ j = sI /\ sI < Len(json) /\ Len(json) \in Nat
        BY <1>1, <1>2, <2>1, LenProperties DEF Closing, Scanning
      <3> HIDE DEF i, j
      <3>3. \A k \in i..j : json[k] \in Cells
        <4>1. \A k \in i..j : k \in 1..Len(json)
          BY <1>1, <3>2
        <4> QED
          BY <1>1, <4>1, ElementOfSeq
      <3>4. i \in Int /\ j \in Int
        BY <1>1, <3>2
      <3> QED
        BY <3>1, <3>3, <3>4, SubSeqProperties
    <2>2. CASE ~(defaultDelimiterPos >= 0)
      BY <1>1, <2>2 DEF ReadDefault
    <2> QED
      BY <2>1, <2>2
  <1>3. CASE NoDevice
    BY <1>3 DEF NoDevice, Stop, scan, Final, TextInv
  <1>4. CASE Lookup
    <2>1. Template(cmd) \in Seq(Cells)
      <3>1. 0 \in 0..Number(cmd) /\ cmd \in Commands /\ GoodArgs(args)
        BY <1>4, Numbers DEF Lookup, InputInv
      <3> QED
        BY <3>1, Ends
    <2>2. status' \in {"replacing", "listing"}
      BY <1>4 DEF Lookup
    <2> QED
      BY <1>1, <1>4, <2>1, <2>2 DEF Lookup, TextInv
  <1>5. CASE NotFound
    BY <1>5 DEF NotFound, Stop, scan, Final, TextInv
  <1>6. CASE Pass
    <2>1. status' \in {"replacing", "listing"} /\ sI' = sI + 1
          /\ defaultDelimiterPos' \in {sI, defaultDelimiterPos}
          /\ UNCHANGED <<json, tokenOpenPos, defaultValue>>
      BY <1>6 DEF Pass, Scanning
    <2> QED
      BY <1>1, <2>1 DEF TextInv
  <1>7. CASE OpenToken
    <2>1. status' \in {"replacing", "listing"} /\ sI' = sI + 1 /\ tokenOpenPos' = sI
          /\ UNCHANGED <<json, defaultDelimiterPos, defaultValue>>
      BY <1>7 DEF OpenToken, Scanning
    <2> QED
      BY <1>1, <2>1 DEF TextInv
  <1>8. CASE Replace
    <2>1. /\ status' = "replacing" /\ CloseToken /\ Closing
          /\ json' = Substr(0, tokenOpenPos) \o Inserted \o SubSeq(json, sI + 2, Len(json))
      BY <1>8 DEF Replace, Splice
    <2>2. ReadDefault \in Seq(Cells)
      BY <1>2, <2>1
    <2>3. Inserted \in Seq(Cells)
      <3>1. CASE Name \in DOMAIN args
        <4>1. args[Name] \in Seq(Cells)
          BY <3>1 DEF InputInv, GoodArgs
        <4> QED
          BY <3>1, <4>1 DEF Inserted
      <3>2. CASE Name \notin DOMAIN args /\ defaultDelimiterPos > 0
        BY <2>2, <3>2 DEF Inserted
      <3>3. CASE Name \notin DOMAIN args /\ ~(defaultDelimiterPos > 0)
        <4>1. <<>> \in Seq(Cells)
          OBVIOUS
        <4> QED
          BY <3>3, <4>1 DEF Inserted
      <3> QED
        BY <3>1, <3>2, <3>3
    <2>4. sI < Len(json) /\ Len(json) \in Nat /\ tokenOpenPos >= 0
      BY <1>1, <2>1, LenProperties DEF Closing, Scanning
    <2>5. Substr(0, tokenOpenPos) \in Seq(Cells)
      <3>1. Substr(0, tokenOpenPos) = SubSeq(json, 0 + 1, 0 + tokenOpenPos)
        BY DEF Substr
      <3>2. 0 + 1 \in Int /\ 0 + tokenOpenPos \in Int
        BY <1>1
      <3>3. \A k \in 0 + 1..0 + tokenOpenPos : json[k] \in Cells
        <4>1. \A k \in 0 + 1..0 + tokenOpenPos : k \in 1..Len(json)
          BY <1>1, <2>4
        <4> QED
          BY <1>1, <4>1, ElementOfSeq
      <3> QED
        BY <3>1, <3>2, <3>3, SubSeqProperties
    <2>6. SubSeq(json, sI + 2, Len(json)) \in Seq(Cells)
      <3>1. sI + 2 \in Int /\ Len(json) \in Int
        BY <1>1, <2>4
      <3>2. \A k \in sI + 2..Len(json) : json[k] \in Cells
        <4>1. \A k \in sI + 2..Len(json) : k \in 1..Len(json)
          BY <1>1, <2>4
        <4> QED
          BY <1>1, <4>1, ElementOfSeq
      <3> QED
        BY <3>1, <3>2, SubSeqProperties
    <2>7. json' \in Seq(Cells)
      BY <2>1, <2>3, <2>5, <2>6, ConcatProperties
    <2>8. /\ sI' = sI + 1 /\ tokenOpenPos' = -1 /\ defaultDelimiterPos' = -1
          /\ defaultValue' = ReadDefault
      BY <2>1 DEF CloseToken
    <2> QED
      BY <1>1, <2>1, <2>2, <2>7, <2>8 DEF TextInv
  <1>9. CASE MissingArgument
    BY <1>9 DEF MissingArgument, Stop, scan, Final, TextInv
  <1>10. CASE List
    <2>1. status' = "listing" /\ CloseToken /\ Closing /\ json' = json
      BY <1>10 DEF List
    <2>2. ReadDefault \in Seq(Cells)
      BY <1>2, <2>1
    <2>3. /\ sI' = sI + 1 /\ tokenOpenPos' = -1 /\ defaultDelimiterPos' = -1
          /\ defaultValue' = ReadDefault
      BY <2>1 DEF CloseToken
    <2> QED
      BY <1>1, <2>1, <2>2, <2>3 DEF TextInv
  <1>11. CASE Listed
    BY <1>11 DEF Listed, Stop, scan, Final, TextInv
  <1>12. CASE NeedsPassword
    BY <1>12 DEF NeedsPassword, Stop, scan, Final, TextInv
  <1>13. CASE Send
    BY <1>13 DEF Send, Stop, scan, Final, TextInv
  <1>14. CASE UNCHANGED vars
    BY <1>14 DEF vars, scan, TextInv
  <1> QED
    BY <1>3, <1>4, <1>5, <1>6, <1>7, <1>8, <1>9, <1>10, <1>11, <1>12, <1>13, <1>14
       DEF Next, Finished

\* At most one command is sent, and only at the end.
LEMMA OutputStep ==
  ASSUME OutputInv, [Next]_vars
  PROVE  OutputInv'
  <1> DEFINE sending == [text |-> RawJson, encrypted |-> FALSE]
  <1>1. CASE NoDevice \/ Lookup \/ Pass \/ OpenToken \/ Replace \/ MissingArgument \/ NeedsPassword
    <2>1. /\ sent' = sent /\ printed' = printed
          /\ status \in {"main", "help", "replacing", "listing"}
          /\ status' = "listing" \/ status # "listing"
          /\ status # "listing" \/ status' = status
      BY <1>1 DEF NoDevice, Lookup, Pass, OpenToken, Replace, MissingArgument, NeedsPassword, Stop,
                  Scanning, Replaced
    <2> QED
      BY <2>1 DEF OutputInv
  <1>2. CASE List
    <2>1. status = "listing" /\ status' = "listing" /\ sent' = sent
      BY <1>2 DEF List
    <2> QED
      BY <2>1 DEF OutputInv
  <1>3. CASE Listed
    <2>1. status = "listing" /\ status' = "listed" /\ sent' = sent
      BY <1>3 DEF Listed, Stop
    <2> QED
      BY <2>1 DEF OutputInv
  <1>4. CASE NotFound
    <2>1. /\ status = "main" /\ status' \in {"notFound", "aborted"} /\ printed' = printed
          /\ sent' = IF cmd = "raw" THEN Append(sent, sending) ELSE sent
      BY <1>4 DEF NotFound, Stop
    <2>2. sent = <<>> /\ printed = <<>>
      BY <2>1 DEF OutputInv
    <2> HIDE DEF sending
    <2>3. Len(Append(<<>>, sending)) = 1 /\ Len(<<>>) = 0
      OBVIOUS
    <2>4. Len(sent') <= 1
      BY <2>1, <2>2, <2>3
    <2> QED
      BY <2>1, <2>2, <2>4 DEF OutputInv
  <1>5. CASE Send
    <2> DEFINE sentence == Outgoing
    <2>1. /\ status = "replacing" /\ status' \in {"answered", "aborted", "undecryptable"}
          /\ printed' = printed /\ sent' = Append(sent, sentence)
      BY <1>5 DEF Send, Stop, Replaced
    <2>2. sent = <<>> /\ printed = <<>>
      BY <2>1 DEF OutputInv
    <2> HIDE DEF sentence
    <2>3. Len(Append(<<>>, sentence)) = 1
      OBVIOUS
    <2>4. Len(sent') <= 1
      BY <2>1, <2>2, <2>3
    <2> QED
      BY <2>1, <2>2, <2>4 DEF OutputInv
  <1>6. CASE UNCHANGED vars
    BY <1>6 DEF vars, OutputInv
  <1> QED
    BY <1>1, <1>2, <1>3, <1>4, <1>5, <1>6 DEF Next, Finished

\* Every step keeps the scan in its place in the text.
LEMMA ScanStep ==
  ASSUME InputInv, TextInv, OutputInv, ScanInv, [Next]_vars
  PROVE  ScanInv'
  <1>1. CASE Lookup
    BY <1>1, LookupScans
  <1>2. CASE Pass
    BY <1>2, PassScans
  <1>3. CASE OpenToken
    BY <1>3, OpenTokenScans
  <1>4. CASE Replace
    BY <1>4, ReplaceScans
  <1>5. CASE List
    BY <1>5, ListScans
  <1>6. CASE NoDevice \/ NotFound \/ MissingArgument \/ Listed \/ NeedsPassword \/ Send
    <2>1. status' \notin {"replacing", "listing"}
      BY <1>6 DEF NoDevice, NotFound, MissingArgument, Listed, NeedsPassword, Send, Stop
    <2> QED
      BY <2>1 DEF ScanInv, Faithful
  <1>7. CASE UNCHANGED vars
    BY <1>7 DEF vars, input, scan, ScanInv, Faithful, At, Between, Inside, Checked, Here
  <1> QED
    BY <1>1, <1>2, <1>3, <1>4, <1>5, <1>6, <1>7 DEF Next, Finished

\* When the scan has come to the end of the text it has passed all variables.
LEMMA AtEnd ==
  ASSUME InputInv, TextInv, ScanInv, Faithful, ~Scanning
  PROVE  At(Number(cmd))
  <1>1. /\ cmd \in Commands /\ GoodArgs(args) /\ sI \in Nat /\ json \in Seq(Cells)
        /\ status \in {"listing", "replacing"}
    BY DEF InputInv, TextInv, Faithful
  <1>2. PICK i \in 0..Number(cmd) : At(i)
    BY DEF ScanInv
  <1>n. Number(cmd) \in Nat
    BY <1>1, Numbers
  <1>3. ~(sI < Len(json))
    BY <1>1 DEF Scanning
  <1>4. ASSUME i < Number(cmd) PROVE FALSE
    <2> DEFINE u == Here(i)
               v == Variables(cmd)[i + 1]
               t == Token(v)
               r == Rest(status, cmd, args, i)
    <2>1. i \in 0..Number(cmd) - 1 /\ i + 1 \in 1..Number(cmd)
      BY <1>4, <1>n
    <2>2. Sound(v)
      BY <1>1, <2>1, SoundVariables
    <2>3. Len(t) \in Nat /\ Len(t) > 2
      BY <2>2, TokenFacts
    <2>u. u \in Seq(Cells)
      BY <1>1, <2>1, Around DEF Here
    <2>t. t \in Seq(Cells)
      BY <1>1, <2>1, Around
    <2>r. r \in Seq(Cells)
      BY <1>1, <2>1, Around
    <2>4. json = (u \o t) \o r
      <3>1. json = Text(status, cmd, args, i)
        BY <1>2 DEF At
      <3>2. Text(status, cmd, args, i)
              = (Lead(status, cmd, args, i) \o Token(Variables(cmd)[i + 1]))
                  \o Rest(status, cmd, args, i)
        BY <1>1, <2>1, Around
      <3> QED
        BY <3>1, <3>2 DEF Here
    <2>5. sI <= Len(u) \/ (sI <= Len(u) + Len(t) - 1)
      <3>1. CASE Between(i)
        BY <1>4, <3>1 DEF Between
      <3>2. CASE Inside(i)
        <4>1. sI \in Len(u) + 1..Len(u) + Len(t) - 1
          BY <3>2 DEF Inside
        <4> QED
          BY <4>1
      <3> QED
        BY <1>2, <3>1, <3>2 DEF At
    <2> HIDE DEF u, t, r
    <2>6. /\ Len(json) = Len(u) + Len(t) + Len(r)
          /\ Len(u) \in Nat /\ Len(r) \in Nat
      BY <2>4, <2>u, <2>t, <2>r, Middle
    <2> QED
      BY <1>1, <1>3, <2>3, <2>5, <2>6
  <1>5. i = Number(cmd)
    BY <1>4, <1>n
  <1> QED
    BY <1>2, <1>5

\* The help ends with all variables printed.
LEMMA ListedStep ==
  ASSUME InputInv, TextInv, ScanInv, Listed
  PROVE  HelpIsComplete'
  <1>1. status = "listing" /\ ~Scanning /\ printed' = printed /\ cmd' = cmd
    BY DEF Listed, Stop, input
  <1>2. At(Number(cmd))
    BY <1>1, AtEnd DEF Faithful
  <1> DEFINE n == Number(cmd)
  <1>3. /\ printed \in Seq([name : Seq(Cells), default : Seq(Cells), mandatory : BOOLEAN])
        /\ Len(printed) = n
        /\ \A k \in 1..n : LET v == Variables(cmd)[k]
                           IN  /\ printed[k].name = v.name
                               /\ v.default # <<>> => printed[k].default = v.default
    BY <1>1, <1>2 DEF At, Checked
  <1>4. DOMAIN printed = 1..n
    BY <1>3, LenProperties
  <1> QED
    BY <1>1, <1>3, <1>4 DEF HelpIsComplete, Number

\* What is sent is what was asked for.
LEMMA SendStep ==
  ASSUME InputInv, TextInv, OutputInv, ScanInv, Send
  PROVE  SendsWhatWasAsked'
  <1>1. /\ status = "replacing" /\ ~Scanning /\ cmd \in Commands
        /\ cmd' = cmd /\ args' = args
        /\ sent' = Append(sent, Outgoing)
        /\ Encrypts => Password \in DOMAIN args
    BY DEF Send, Stop, input, Replaced, InputInv
  <1>2. sent'[1] = Outgoing
    <2>1. sent = <<>>
      BY <1>1 DEF OutputInv
    <2>2. ASSUME NEW m PROVE Append(<<>>, m)[1] = m
      OBVIOUS
    <2> QED
      BY <1>1, <2>1, <2>2
  <1>3. /\ vCommands[cmd].requiresEncryption => Encrypts
        /\ Encrypts <=> Password \in DOMAIN args
        /\ Encrypts \in BOOLEAN
    BY <1>1 DEF Encrypts
  <1>4. vCommands[cmd].requiresEncryption => Outgoing.encrypted \/ Outgoing = Blank
    BY <1>3 DEF Outgoing
  <1>5. ASSUME Readable(cmd, args)
        PROVE  Complete(cmd, args) /\ Outgoing = Asked(cmd, args)
    <2>1. At(Number(cmd))
      BY <1>1, <1>5, AtEnd DEF Faithful
    <2>2. GoodArgs(args)
      BY DEF InputInv
    <2>3. json = Expected(cmd, args)
      BY <1>1, <2>1, <2>2, Ends DEF At
    <2>4. \A k \in 1..Number(cmd) : Variables(cmd)[k].mandatory
          => Variables(cmd)[k].name \in DOMAIN args
      BY <1>1, <2>1 DEF At, Checked
    <2>5. Complete(cmd, args)
      BY <1>1, <2>4, Numbers DEF Complete
    <2>6. Outgoing = Asked(cmd, args)
      <3>1. CASE Encrypts
        <4>1. Encrypts = TRUE /\ Password \in DOMAIN args
          BY <1>3, <3>1
        <4> QED
          BY <2>3, <4>1 DEF Outgoing, Asked
      <3>2. CASE ~Encrypts
        <4>1. Encrypts = FALSE /\ Password \notin DOMAIN args
          BY <1>3, <3>2
        <4> QED
          BY <2>3, <4>1 DEF Outgoing, Asked
      <3> QED
        BY <3>1, <3>2
    <2> QED
      BY <2>5, <2>6
  <1> QED
    BY <1>1, <1>2, <1>4, <1>5 DEF SendsWhatWasAsked

\* A refusal for want of an argument has a mandatory variable without one.
LEMMA MissingStep ==
  ASSUME InputInv, TextInv, ScanInv, MissingArgument, Readable(cmd, args)
  PROVE  ~Complete(cmd, args)
  <1>1. /\ status = "replacing" /\ Closing /\ Char = "%" /\ cmd \in Commands /\ GoodArgs(args)
        /\ IsMandatory /\ Name \notin DOMAIN args
    BY DEF MissingArgument, Closing, InputInv
  <1>2. PICK i \in 0..Number(cmd) - 1 : At(i) /\ Inside(i)
    BY <1>1, ClosesInside DEF Faithful
  <1>3. Name = Variables(cmd)[i + 1].name /\ Variables(cmd)[i + 1].mandatory
    BY <1>1, <1>2, Reads
  <1>4. i + 1 \in DOMAIN Variables(cmd)
    BY <1>1, Numbers
  <1> QED
    BY <1>1, <1>3, <1>4 DEF Complete

\* What holds of the outcome holds when main has ended.
LEMMA EndStep ==
  ASSUME InputInv, TextInv, OutputInv, ScanInv, EndInv, [Next]_vars
  PROVE  EndInv'
  <1>1. cmd' = cmd /\ args' = args
    BY InputStep
  <1>2. HelpIsComplete'
    <2>1. CASE Listed
      BY <2>1, ListedStep
    <2>2. CASE UNCHANGED vars
      BY <2>2 DEF vars, input, EndInv, HelpIsComplete
    <2>3. CASE Next /\ ~Listed /\ ~UNCHANGED vars
      <3>1. status' # "listed"
        BY <2>3 DEF Next, NoDevice, Lookup, NotFound, Pass, OpenToken, Replace, MissingArgument, List,
                    NeedsPassword, Send, Stop, Finished, Scanning
      <3> QED
        BY <3>1 DEF HelpIsComplete
    <2> QED
      BY <2>1, <2>2, <2>3
  <1>3. SendsWhatWasAsked'
    <2>1. CASE Send
      BY <2>1, SendStep
    <2>2. CASE NotFound
      <3>1. cmd' \notin Commands
        BY <1>1, <2>2, OtherCommands DEF NotFound
      <3> QED
        BY <3>1 DEF SendsWhatWasAsked
    <2>3. CASE sent' = sent
      <3>1. SendsWhatWasAsked
        BY DEF EndInv
      <3> QED
        BY <1>1, <2>3, <3>1 DEF SendsWhatWasAsked
    <2>4. Send \/ NotFound \/ sent' = sent
      BY DEF Next, vars, NoDevice, Lookup, Pass, OpenToken, Replace, MissingArgument, List, Listed,
             NeedsPassword, Finished
    <2> QED
      BY <2>1, <2>2, <2>3, <2>4
  <1>4. RefusesOnlyIncomplete'
    <2>1. CASE MissingArgument
      <3>1. Readable(cmd, args) => ~Complete(cmd, args)
        BY <2>1, MissingStep
      <3> QED
        BY <1>1, <3>1 DEF RefusesOnlyIncomplete
    <2>2. CASE UNCHANGED vars
      <3>1. RefusesOnlyIncomplete
        BY DEF EndInv
      <3> QED
        BY <1>1, <2>2, <3>1 DEF vars, RefusesOnlyIncomplete
    <2>3. CASE Next /\ ~MissingArgument /\ ~UNCHANGED vars
      <3>1. status' # "missing"
        BY <2>3 DEF Next, NoDevice, Lookup, NotFound, Pass, OpenToken, Replace, List, Listed,
                    NeedsPassword, Send, Stop, Finished, Scanning
      <3> QED
        BY <3>1 DEF RefusesOnlyIncomplete
    <2> QED
      BY <2>1, <2>2, <2>3
  <1> QED
    BY <1>1, <1>2, <1>3, <1>4 DEF EndInv

\* The inductive invariant holds always.
LEMMA Invariant == Spec => []Inv
  <1>1. Init => Inv
    BY InitInv
  <1>2. Inv /\ [Next]_vars => Inv'
    BY InputStep, TextStep, OutputStep, ScanStep, EndStep DEF Inv
  <1> QED
    BY <1>1, <1>2, PTL DEF Spec

\* The local variables of main keep their types: the places of the scan stay in
\* range, no more than the four variables of an entry are listed, and no more
\* than one command is sent in a call (dbb_cli.cpp 167-286).
THEOREM TypeCorrect == Spec => []TypeOK
  <1>1. Inv => TypeOK
    <2> SUFFICES ASSUME Inv PROVE TypeOK
      OBVIOUS
    <2>1. InputInv /\ TextInv /\ OutputInv /\ ScanInv /\ HelpIsComplete
      BY DEF Inv, EndInv
    <2>2. Len(printed) <= 4
      <3>1. CASE status = "listing"
        <4>1. PICK i \in 0..Number(cmd) : At(i)
          BY <2>1, <3>1 DEF ScanInv, Faithful
        <4>2. Len(printed) = i
          BY <3>1, <4>1 DEF At, Checked
        <4>3. Number(cmd) \in 0..4
          BY <2>1, <3>1, Numbers DEF InputInv
        <4> QED
          BY <4>2, <4>3
      <3>2. CASE status = "listed"
        <4>1. Len(printed) = Number(cmd)
          BY <2>1, <3>2 DEF HelpIsComplete, Number
        <4>2. Number(cmd) \in 0..4
          BY <2>1, <3>2, Numbers DEF InputInv
        <4> QED
          BY <4>1, <4>2
      <3>3. CASE status \notin {"listing", "listed"}
        <4>1. printed = <<>> /\ Len(<<>>) = 0
          BY <2>1, <3>3 DEF OutputInv
        <4> QED
          BY <4>1
      <3> QED
        BY <3>1, <3>2, <3>3
    <2> QED
      BY <2>1, <2>2 DEF TypeOK, InputInv, TextInv, OutputInv
  <1> QED
    BY <1>1, Invariant, PTL

\* Whatever the arguments and their values are: a command that requires
\* encryption is never sent in the clear.  And unless a value is so short that
\* the scan passes over the next variable, or has a sign where the scan reads it
\* again, the text that is sent for a command of the table is its text with every
\* variable replaced by its argument or its default, it is not sent without a
\* mandatory argument, it is encrypted if a password was given, and with an empty
\* password the report is blank (dbb_cli.cpp 185-268).
THEOREM SendsAsked == Spec => []SendsWhatWasAsked
  <1>1. Inv => SendsWhatWasAsked
    BY DEF Inv, EndInv
  <1> QED
    BY <1>1, Invariant, PTL

\* With values that the scan neither passes over nor reads again, main refuses
\* for want of an argument only when a mandatory argument is missing
\* (dbb_cli.cpp 217-222).
THEOREM RefusesIncomplete == Spec => []RefusesOnlyIncomplete
  <1>1. Inv => RefusesOnlyIncomplete
    BY DEF Inv, EndInv
  <1> QED
    BY <1>1, Invariant, PTL

\* The help of a command names all its variables in their order, each with the
\* default it has (dbb_cli.cpp 109-162).
THEOREM HelpComplete == Spec => []HelpIsComplete
  <1>1. Inv => HelpIsComplete
    BY DEF Inv, EndInv
  <1> QED
    BY <1>1, Invariant, PTL
=============================================================================
