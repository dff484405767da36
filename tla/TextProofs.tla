----------------------------- MODULE TextProofs -----------------------------
(***************************************************************************)
(* Proofs about the two algorithms on text: the master key is stable over   *)
(* restarts, for .env files of any length and any number of starts; and the *)
(* braces of a rule are counted, for texts of any lexemes and any length.   *)
(***************************************************************************)
EXTENDS MasterKey, RuleText, FiniteSetTheorems, SequenceTheorems, TLAPS

\* A set of naturals has a least element: the intervals that end in its members
\* are finite sets, among which strict inclusion is well-founded.
LEMMA LeastNatural ==
    ASSUME NEW T, T \subseteq Nat, T # {}
    PROVE  Min(T) \in T /\ \A x \in T : Min(T) <= x
<1> DEFINE Upto == {0..x : x \in T}
<1>1. \A x \in T : 0..x \in FiniteSubsetsOf(Nat)
    BY FS_Interval DEF FiniteSubsetsOf
<1>2. Upto \subseteq FiniteSubsetsOf(Nat) /\ Upto # {}
    BY <1>1
<1>3. PICK I \in Upto : \A J \in Upto : <<J, I>> \notin StrictSubsetOrdering(Nat)
    <2> HIDE DEF Upto
    <2> QED BY <1>2, FS_StrictSubsetOrderingWellFounded, WFMin
<1>4. PICK m \in T : I = 0..m
    OBVIOUS
<1>5. ASSUME NEW x \in T PROVE m <= x
    <2>1. <<0..x, 0..m>> \notin StrictSubsetOrdering(Nat)
        BY <1>3, <1>4
    <2>2. (0..x) \in SUBSET Nat /\ (0..m) \in SUBSET Nat
        OBVIOUS
    <2>3. ~(0..x \subseteq 0..m /\ 0..x # 0..m)
        BY <2>1, <2>2 DEF StrictSubsetOrdering
    <2>4. x < m => x + 1 \in 0..m /\ x + 1 \notin 0..x /\ 0..x \subseteq 0..m
        OBVIOUS
    <2> QED BY <2>3, <2>4
<1>6. \E y \in T : \A x \in T : y <= x
    BY <1>5
<1> QED
    BY <1>6 DEF Min

\* The scan for a line finds the first one of the form, if there is one.
LEMMA FirstLineFinds ==
    ASSUME NEW file, Len(file) \in Nat, NEW forms
    PROVE  \/ /\ FirstLine(file, forms) = 0
              /\ \A i \in 1..Len(file) : file[i].form \notin forms
           \/ /\ FirstLine(file, forms) \in 1..Len(file)
              /\ file[FirstLine(file, forms)].form \in forms
              /\ \A h \in 1..Len(file) :
                    h < FirstLine(file, forms) => file[h].form \notin forms
<1> DEFINE Found == {i \in 1..Len(file) : file[i].form \in forms}
<1>1. FirstLine(file, forms) = IF Found # {} THEN Min(Found) ELSE 0
    BY DEF FirstLine, SelectInSeq
<1>2. CASE Found = {}
    BY <1>1, <1>2
<1>3. CASE Found # {}
    <2>1. Found \subseteq Nat
        OBVIOUS
    <2>2. Min(Found) \in Found /\ \A x \in Found : Min(Found) <= x
        BY <1>3, <2>1, LeastNatural
    <2>3. \A h \in 1..Len(file) : h < Min(Found) => h \notin Found
        <3> HIDE DEF Found
        <3>1. Min(Found) \in Nat
            BY <2>1, <2>2
        <3> QED BY <2>2, <3>1
    <2> QED BY <1>1, <1>3, <2>2, <2>3
<1> QED
    BY <1>2, <1>3

-----------------------------------------------------------------------------
KeyForms == {"tight", "spaced"}
TypedLines == [form : {"tight", "spaced", "other"}, value : Nat]
Files == Seq(TypedLines)

\* As long as the file that was found can be read, the file can be; and once a
\* start has served, its first key line holds the key of all of them.
KeyInv ==
    /\ env \in Files \cup {Missing}
    /\ keys \in Seq(Nat) /\ starts \in Nat
    /\ ~Misread(origin) =>
        /\ ~Misread(env)
        /\ \A i \in 1..Len(keys) : HasKey /\ keys[i] = readKeyFromEnv

\* A file's lines, and how many there are.
LEMMA FileLines ==
    ASSUME NEW file \in Files
    PROVE  /\ Len(file) \in Nat /\ DOMAIN file = 1..Len(file)
           /\ \A i \in 1..Len(file) :
                /\ file[i] \in TypedLines
                /\ file[i].form \in {"tight", "spaced", "other"} /\ file[i].value \in Nat
<1>1. Len(file) \in Nat /\ DOMAIN file = 1..Len(file)
    BY DEF Files
<1>2. \A i \in 1..Len(file) : file[i] \in TypedLines
    BY DEF Files
<1>3. \A line \in TypedLines : line.form \in {"tight", "spaced", "other"} /\ line.value \in Nat
    BY DEF TypedLines
<1> QED
    BY <1>1, <1>2, <1>3

LEMMA KeyStart == KeyInit => KeyInv
<1> SUFFICES ASSUME KeyInit PROVE KeyInv
    OBVIOUS
<1>1. Lines \subseteq TypedLines
    BY DEF Lines, TypedLines, Line, Nothing, Malformed, OldKey
<1>2. env \in Files \cup {Missing}
    <2>1. CASE env \in SeqOf(Lines, MaxLines)
        <3>1. PICK m \in 0..MaxLines : env \in [1..m -> Lines]
            BY <2>1 DEF SeqOf
        <3>2. m \in Nat
            BY KeyConstants DEF KeyConstants
        <3>3. env \in [1..m -> TypedLines]
            BY <1>1, <3>1
        <3> QED BY <3>2, <3>3 DEF Files
    <2> QED BY <2>1 DEF KeyInit
<1> QED
    BY <1>2 DEF KeyInit, KeyInv

\* What a file says that can be read and holds no key: it has no spaced line
\* but behind a tight one.
LEMMA NoSpacedFirst ==
    ASSUME env \in Files, ~Misread(env), ~HasKey,
           NEW i \in 1..Len(env), env[i].form = "spaced"
    PROVE  \E h \in 1..Len(env) : h < i /\ env[h].form = "tight"
<1> DEFINE first == FirstLine(env, KeyForms)
<1>1. /\ Len(env) \in Nat /\ DOMAIN env = 1..Len(env)
      /\ \A h \in 1..Len(env) : env[h].form \in {"tight", "spaced", "other"}
    BY FileLines
<1>2. env[i].form \in KeyForms
    BY DEF KeyForms
<1>3. /\ first \in 1..Len(env) /\ env[first].form \in KeyForms
      /\ \A h \in 1..Len(env) : h < first => env[h].form \notin KeyForms
    BY <1>1, <1>2, FirstLineFinds
<1>4. readKeyFromEnv = env[first].value
    <2>1. first # 0
        BY <1>1, <1>3
    <2> QED BY <2>1 DEF readKeyFromEnv, KeyForms
<1>5. ~ParseMasterKey(env[first].value)
    BY <1>4 DEF HasKey
<1>6. \A h \in 1..(first - 1) : h \in 1..Len(env) /\ h < first
    <2> HIDE DEF first
    <2> QED BY <1>1, <1>3
<1>7. \A h \in 1..(first - 1) : env[h].form = "other"
    <2>1. \A h \in 1..Len(env) : h < first => env[h].form = "other"
        <3> HIDE DEF first
        <3> QED BY <1>1, <1>3 DEF KeyForms
    <2> HIDE DEF first
    <2> QED BY <1>6, <2>1
<1>8. env[first].form # "spaced"
    <2> HIDE DEF first
    <2> QED BY <1>1, <1>3, <1>5, <1>7 DEF Misread
<1>9. first < i /\ env[first].form = "tight"
    <2>1. ~(i < first)
        BY <1>2, <1>3
    <2>2. i # first
        BY <1>8
    <2> HIDE DEF first
    <2> QED BY <1>1, <1>3, <1>8, <2>1, <2>2 DEF KeyForms
<1> QED
    BY <1>3, <1>9

\* A file whose first key line is a tight one with a key.
LeadsWith(file, f, key) ==
    /\ file \in Files /\ f \in 1..Len(file) /\ file[f] = Line("tight", key)
    /\ \A h \in 1..Len(file) : h < f => file[h].form = "other"

LEMMA LeadsReads ==
    ASSUME NEW f, NEW key, LeadsWith(env', f, key)
    PROVE  readKeyFromEnv' = key /\ ~Misread(env')
<1> DEFINE first == FirstLine(env', KeyForms)
<1>1. /\ Len(env') \in Nat /\ DOMAIN env' = 1..Len(env') /\ f \in 1..Len(env')
      /\ env'[f].form = "tight" /\ env'[f].value = key
      /\ \A h \in 1..Len(env') : h < f => env'[h].form = "other"
    BY FileLines DEF LeadsWith, Line
<1>2. \/ /\ first = 0 /\ \A i \in 1..Len(env') : env'[i].form \notin KeyForms
      \/ /\ first \in 1..Len(env') /\ env'[first].form \in KeyForms
         /\ \A h \in 1..Len(env') : h < first => env'[h].form \notin KeyForms
    BY <1>1, FirstLineFinds
<1>3. first = f
    <2> HIDE DEF first
    <2> QED BY <1>1, <1>2 DEF KeyForms
<1>4. readKeyFromEnv' = IF first = 0 THEN Nothing ELSE env'[first].value
    BY DEF readKeyFromEnv, KeyForms
<1>5. f # 0
    BY <1>1
<1>6. readKeyFromEnv' = key
    <2> HIDE DEF first
    <2> QED BY <1>1, <1>3, <1>4, <1>5
<1>7. ASSUME NEW i \in DOMAIN env', env'[i].form = "spaced",
             \A h \in 1..(i - 1) : env'[h].form = "other"
      PROVE  FALSE
    <2>1. i \in 1..Len(env') /\ i # f /\ ~(i < f)
        BY <1>1, <1>7
    <2>2. f \in 1..(i - 1)
        BY <1>1, <2>1
    <2> QED BY <1>1, <1>7, <2>2
<1> QED
    BY <1>6, <1>7 DEF Misread

\* The writer leaves a file.
LEMMA FileIsWritten ==
    ASSUME env \in Files \cup {Missing}, NEW key \in Nat, env' = appendOrWriteEnv(key)
    PROVE  env' \in Files
<1>1. Line("tight", key) \in TypedLines /\ Line("other", Nothing) \in TypedLines
    BY DEF Line, Nothing, TypedLines
<1>2. CASE env = Missing
    <2>1. env' = <<Line("other", Nothing), Line("tight", key)>>
        BY <1>2 DEF appendOrWriteEnv
    <2> QED BY <1>1, <2>1 DEF Files
<1>3. CASE env # Missing
    <2> DEFINE first == FirstLine(env, {"tight"})
    <2>1. env \in Files /\ Len(env) \in Nat
        BY <1>3, FileLines
    <2>2. env' = IF first # 0 THEN [env EXCEPT ![first] = Line("tight", key)]
                              ELSE Append(env, Line("tight", key))
        BY <1>3 DEF appendOrWriteEnv, ReplaceAt
    <2>3. first = 0 \/ first \in 1..Len(env)
        BY <2>1, FirstLineFinds
    <2> HIDE DEF first
    <2> QED BY <1>1, <2>1, <2>2, <2>3 DEF Files
<1> QED
    BY <1>2, <1>3

\* The writer puts a new key where the reader looks for it.
LEMMA KeyIsWritten ==
    ASSUME env \in Files \cup {Missing}, ~Misread(env), ~HasKey, NEW key \in Nat,
           env' = appendOrWriteEnv(key)
    PROVE  \E f : LeadsWith(env', f, key)
<1> DEFINE tight == Line("tight", key)
<1>1. env' \in Files
    BY FileIsWritten
<1>2. CASE env = Missing
    <2>1. env' = <<Line("other", Nothing), tight>>
        BY <1>2 DEF appendOrWriteEnv
    <2>2. LeadsWith(env', 2, key)
        <3>1. Len(env') = 2 /\ env'[2] = tight /\ env'[1] = Line("other", Nothing)
            BY <2>1
        <3>2. env'[1].form = "other"
            BY <3>1 DEF Line
        <3>3. \A h \in 1..2 : h < 2 => h = 1
            OBVIOUS
        <3> QED BY <1>1, <3>1, <3>2, <3>3 DEF LeadsWith
    <2> QED BY <2>2
<1>3. CASE env # Missing
    <2> DEFINE first == FirstLine(env, {"tight"})
    <2>1. /\ env \in Files /\ Len(env) \in Nat /\ DOMAIN env = 1..Len(env)
          /\ \A i \in 1..Len(env) : env[i].form \in {"tight", "spaced", "other"}
        BY <1>3, FileLines
    <2>2. env' = IF first # 0 THEN [env EXCEPT ![first] = tight] ELSE Append(env, tight)
        BY <1>3 DEF appendOrWriteEnv, ReplaceAt
    <2>3. \/ /\ first = 0 /\ \A i \in 1..Len(env) : env[i].form # "tight"
          \/ /\ first \in 1..Len(env)
             /\ \A h \in 1..Len(env) : h < first => env[h].form # "tight"
        BY <2>1, FirstLineFinds
    <2> HIDE DEF first
    <2>4. CASE first = 0 /\ \A i \in 1..Len(env) : env[i].form # "tight"
        <3>1. \A i \in 1..Len(env) : env[i].form = "other"
            BY <1>3, <2>1, <2>4, NoSpacedFirst
        <3>2. /\ Len(env') = Len(env) + 1 /\ env'[Len(env) + 1] = tight
              /\ \A i \in 1..Len(env) : env'[i] = env[i]
            BY <2>1, <2>2, <2>4 DEF Files
        <3>3. \A h \in 1..Len(env') : h < Len(env) + 1 => h \in 1..Len(env)
            BY <2>1, <3>2
        <3>4. LeadsWith(env', Len(env) + 1, key)
            BY <1>1, <2>1, <3>1, <3>2, <3>3 DEF LeadsWith
        <3> QED BY <3>4
    <2>5. CASE first \in 1..Len(env) /\ \A h \in 1..Len(env) : h < first => env[h].form # "tight"
        <3>1. first # 0
            BY <2>5
        <3>2. /\ Len(env') = Len(env) /\ env'[first] = tight
              /\ \A i \in 1..Len(env) : i # first => env'[i] = env[i]
            BY <2>1, <2>2, <2>5, <3>1 DEF Files
        <3>3. ASSUME NEW h \in 1..Len(env), h < first PROVE env[h].form = "other"
            <4>1. env[h].form # "spaced"
                <5>1. \A x \in 1..Len(env) : x < h => x < first
                    BY <2>5, <3>3
                <5> QED BY <1>3, <2>1, <2>5, <5>1, NoSpacedFirst
            <4> QED BY <2>1, <2>5, <3>3, <4>1
        <3>4. \A h \in 1..Len(env) : h < first => h # first
            BY <2>5
        <3>5. LeadsWith(env', first, key)
            BY <1>1, <2>5, <3>2, <3>3, <3>4 DEF LeadsWith
        <3> QED BY <3>5
    <2> QED BY <2>3, <2>4, <2>5
<1> QED
    BY <1>2, <1>3

LEMMA KeyStep == KeyInv /\ [EnsureMasterKey]_keyVars => KeyInv'
<1> SUFFICES ASSUME KeyInv, [EnsureMasterKey]_keyVars PROVE KeyInv'
    OBVIOUS
<1>1. CASE ExistingKey
    <2>1. UNCHANGED <<origin, env>> /\ starts' = starts + 1 /\ HasKey
          /\ keys' = Append(keys, readKeyFromEnv)
        BY <1>1 DEF ExistingKey, Starting
    <2>2. readKeyFromEnv \in Nat
        <3>1. CASE env \in Files
            BY <3>1, FileLines, FirstLineFinds DEF readKeyFromEnv, Nothing
        <3>2. CASE env = Missing
            <4>1. Len(env) \in Nat /\ \A i \in 1..Len(env) : env[i].value = Nothing
                BY <3>2 DEF Missing, Line
            <4> QED BY <4>1, FirstLineFinds DEF readKeyFromEnv, Nothing
        <3> QED BY <3>1, <3>2 DEF KeyInv
    <2>3. readKeyFromEnv' = readKeyFromEnv /\ (HasKey' <=> HasKey)
        BY <2>1 DEF readKeyFromEnv, HasKey
    <2>4. keys' \in Seq(Nat) /\ Len(keys') = Len(keys) + 1
          /\ \A i \in 1..Len(keys') : keys'[i] = readKeyFromEnv \/ (i \in 1..Len(keys) /\ keys'[i] = keys[i])
        BY <2>1, <2>2 DEF KeyInv
    <2>5. ~Misread(origin') => \A i \in 1..Len(keys') : HasKey' /\ keys'[i] = readKeyFromEnv'
        BY <2>1, <2>3, <2>4 DEF KeyInv
    <2>6. Misread(env') <=> Misread(env)
        BY <2>1
    <2>7. Misread(origin') <=> Misread(origin)
        BY <2>1
    <2> QED BY <2>1, <2>4, <2>5, <2>6, <2>7 DEF KeyInv
<1>2. CASE FreshKey
    <2> PICK key : key = Generated(starts')
        OBVIOUS
    <2>1. origin' = origin /\ starts' = starts + 1 /\ ~HasKey
          /\ keys' = Append(keys, key) /\ env' = appendOrWriteEnv(key)
        BY <1>2 DEF FreshKey, Starting
    <2>2. starts' \in Nat /\ key \in Nat /\ ParseMasterKey(key)
        BY <2>1 DEF KeyInv, Generated, OldKey, ParseMasterKey, Nothing, Malformed
    <2>3. keys' \in Seq(Nat)
        BY <2>1, <2>2 DEF KeyInv
    <2>4. CASE Misread(origin)
        <3>1. env' \in Files
            BY <2>1, <2>2, FileIsWritten DEF KeyInv
        <3> QED BY <2>1, <2>2, <2>3, <2>4, <3>1 DEF KeyInv
    <2>5. CASE ~Misread(origin)
        <3>1. PICK f : LeadsWith(env', f, key)
            BY <2>1, <2>2, <2>5, KeyIsWritten DEF KeyInv
        <3>2. readKeyFromEnv' = key /\ ~Misread(env') /\ env' \in Files
            BY <3>1, LeadsReads DEF LeadsWith
        <3>3. keys = <<>>
            BY <2>1, <2>5 DEF KeyInv
        <3>4. Len(keys') = 1 /\ keys'[1] = key
            BY <2>1, <3>3
        <3>5. HasKey'
            BY <2>2, <3>2 DEF HasKey
        <3> QED BY <2>1, <2>2, <2>3, <3>2, <3>4, <3>5 DEF KeyInv
    <2> QED BY <2>4, <2>5
<1>3. CASE WriteCut
    <2>1. /\ UNCHANGED <<origin, keys>> /\ starts' = starts + 1 /\ ~HasKey
          /\ env' \in {env, <<>>}
        BY <1>3 DEF WriteCut, Starting
    <2>2. <<>> \in Files /\ ~Misread(<<>>)
        BY DEF Files, Misread
    <2>3. ~Misread(origin) => Len(keys) = 0
        BY <2>1 DEF KeyInv
    <2> QED BY <2>1, <2>2, <2>3 DEF KeyInv
<1>4. CASE UNCHANGED keyVars
    BY <1>4 DEF KeyInv, keyVars, HasKey, readKeyFromEnv
<1> QED
    BY <1>1, <1>2, <1>3, <1>4 DEF EnsureMasterKey

\* Every start that serves has the key of the first one that did, or nothing in
\* the vault could be decrypted any more: whatever .env file EnsureMasterKey
\* finds, unless its first key line is spaced and holds no key, and whichever
\* writes are cut.
THEOREM KeyIsStableAlways == KeySpec => []KeyIsStable
<1>1. KeyInv => KeyIsStable
    BY DEF KeyInv, KeyIsStable
<1> QED
    BY KeyStart, KeyStep, <1>1, PTL DEF KeySpec

-----------------------------------------------------------------------------
(* The loop of countBraces over a text of any lexemes                        *)

\* A function is what the loop knows after each turn.
IsScan(f, s) ==
    f = [i \in 0..Len(s) |->
            IF i = 0 THEN Scanner ELSE Turn(f[i - 1], s[i], At(s, i + 1))]

LEMMA ScanIsOne ==
    ASSUME NEW s, Len(s) \in Nat, NEW f, NEW g, IsScan(f, s), IsScan(g, s)
    PROVE  f = g
<1> DEFINE Differ == {i \in 0..Len(s) : f[i] # g[i]}
<1>1. /\ \A i \in 0..Len(s) :
            f[i] = IF i = 0 THEN Scanner ELSE Turn(f[i - 1], s[i], At(s, i + 1))
      /\ \A i \in 0..Len(s) :
            g[i] = IF i = 0 THEN Scanner ELSE Turn(g[i - 1], s[i], At(s, i + 1))
    BY DEF IsScan
<1>2. Differ = {}
    <2>1. SUFFICES ASSUME Differ # {} PROVE FALSE
        OBVIOUS
    <2>2. Differ \subseteq Nat
        OBVIOUS
    <2>3. PICK m \in Differ : \A x \in Differ : m <= x
        <3> HIDE DEF Differ
        <3> QED BY <2>1, <2>2, LeastNatural
    <2>4. m \in 0..Len(s) /\ f[m] # g[m]
        OBVIOUS
    <2>5. CASE m = 0
        BY <1>1, <2>4, <2>5
    <2>6. CASE m # 0
        <3>1. m - 1 \in 0..Len(s) /\ m - 1 < m
            BY <2>4, <2>6
        <3>2. m - 1 \notin Differ
            <4> HIDE DEF Differ
            <4> QED BY <2>2, <2>3, <3>1
        <3>3. f[m - 1] = g[m - 1]
            BY <3>1, <3>2
        <3> QED BY <1>1, <2>4, <2>6, <3>3
    <2> QED BY <2>5, <2>6
<1>3. \A i \in 0..Len(s) : f[i] = g[i]
    BY <1>2
<1>4. /\ f = [i \in 0..Len(s) |-> f[i]]
      /\ g = [i \in 0..Len(s) |-> g[i]]
    BY DEF IsScan
<1> QED
    BY <1>3, <1>4

\* So the loop is that function, if there is one.
LEMMA ScanIs ==
    ASSUME NEW s, Len(s) \in Nat, NEW f, IsScan(f, s)
    PROVE  Scan(s) = f
<1>1. IsScan(Scan(s), s)
    BY DEF Scan, IsScan
<1> QED
    BY <1>1, ScanIsOne

\* The scanner when the braces before are counted.
InMode(mode, b) ==
    [mode |-> mode, escaped |-> FALSE, skip |-> FALSE, open |-> b[1], close |-> b[2]]
Escaped(b) ==
    [mode |-> "string", escaped |-> TRUE, skip |-> FALSE, open |-> b[1], close |-> b[2]]
Skipping(mode, b) ==
    [mode |-> mode, escaped |-> FALSE, skip |-> TRUE, open |-> b[1], close |-> b[2]]

\* One turn of the loop, mode by mode.
LEMMA CodeTurns ==
    ASSUME NEW b
    PROVE  /\ \A c, x : c \notin {"open", "close", "quote", "slash"} =>
                  Turn(InMode("code", b), c, x) = InMode("code", b)
           /\ \A x : x \notin {"slash", "star"} =>
                  Turn(InMode("code", b), "slash", x) = InMode("code", b)
           /\ \A x : Turn(InMode("code", b), "open", x) = InMode("code", <<b[1] + 1, b[2]>>)
           /\ \A x : Turn(InMode("code", b), "close", x) = InMode("code", <<b[1], b[2] + 1>>)
<1> USE DEF InMode, Skipping, Escaped, Turn, InCode, InLineComment, InBlockComment, InString,
            Enter, EnterOver
<1>1. \A c, x : c \notin {"open", "close", "quote", "slash"} =>
          Turn(InMode("code", b), c, x) = InMode("code", b)
    OBVIOUS
<1>2. \A x : x \notin {"slash", "star"} =>
          Turn(InMode("code", b), "slash", x) = InMode("code", b)
    OBVIOUS
<1>3. \A x : Turn(InMode("code", b), "open", x) = InMode("code", <<b[1] + 1, b[2]>>)
    OBVIOUS
<1>4. \A x : Turn(InMode("code", b), "close", x) = InMode("code", <<b[1], b[2] + 1>>)
    OBVIOUS
<1> HIDE DEF InMode, Skipping, Escaped, Turn
<1> QED
    BY <1>1, <1>2, <1>3, <1>4

LEMMA LineTurns ==
    ASSUME NEW b
    PROVE  /\ Turn(InMode("code", b), "slash", "slash") = Skipping("line", b)
           /\ \A c, x : Turn(Skipping("line", b), c, x) = InMode("line", b)
           /\ \A c, x : c # "newline" => Turn(InMode("line", b), c, x) = InMode("line", b)
           /\ \A x : Turn(InMode("line", b), "newline", x) = InMode("code", b)
<1> USE DEF InMode, Skipping, Escaped, Turn, InCode, InLineComment, InBlockComment, InString,
            Enter, EnterOver
<1>1. Turn(InMode("code", b), "slash", "slash") = Skipping("line", b)
    OBVIOUS
<1>2. \A c, x : Turn(Skipping("line", b), c, x) = InMode("line", b)
    OBVIOUS
<1>3. \A c, x : c # "newline" => Turn(InMode("line", b), c, x) = InMode("line", b)
    OBVIOUS
<1>4. \A x : Turn(InMode("line", b), "newline", x) = InMode("code", b)
    OBVIOUS
<1> HIDE DEF InMode, Skipping, Escaped, Turn
<1> QED
    BY <1>1, <1>2, <1>3, <1>4

LEMMA BlockTurns ==
    ASSUME NEW b
    PROVE  /\ Turn(InMode("code", b), "slash", "star") = Skipping("block", b)
           /\ \A c, x : Turn(Skipping("block", b), c, x) = InMode("block", b)
           /\ \A c, x : ~(c = "star" /\ x = "slash") =>
                  Turn(InMode("block", b), c, x) = InMode("block", b)
           /\ Turn(InMode("block", b), "star", "slash") = Skipping("code", b)
           /\ \A c, x : Turn(Skipping("code", b), c, x) = InMode("code", b)
<1> USE DEF InMode, Skipping, Escaped, Turn, InCode, InLineComment, InBlockComment, InString,
            Enter, EnterOver
<1>1. Turn(InMode("code", b), "slash", "star") = Skipping("block", b)
    OBVIOUS
<1>2. \A c, x : Turn(Skipping("block", b), c, x) = InMode("block", b)
    OBVIOUS
<1>3. \A c, x : ~(c = "star" /\ x = "slash") =>
          Turn(InMode("block", b), c, x) = InMode("block", b)
    OBVIOUS
<1>4. Turn(InMode("block", b), "star", "slash") = Skipping("code", b)
    OBVIOUS
<1>5. \A c, x : Turn(Skipping("code", b), c, x) = InMode("code", b)
    OBVIOUS
<1> HIDE DEF InMode, Skipping, Escaped, Turn
<1> QED
    BY <1>1, <1>2, <1>3, <1>4, <1>5

LEMMA StringTurns ==
    ASSUME NEW b
    PROVE  /\ \A x : Turn(InMode("code", b), "quote", x) = InMode("string", b)
           /\ \A x : Turn(InMode("string", b), "backslash", x) = Escaped(b)
           /\ \A c, x : Turn(Escaped(b), c, x) = InMode("string", b)
           /\ \A x : Turn(InMode("string", b), "quote", x) = InMode("code", b)
           /\ \A c, x : c \notin {"quote", "backslash"} =>
                  Turn(InMode("string", b), c, x) = InMode("string", b)
<1> USE DEF InMode, Skipping, Escaped, Turn, InCode, InLineComment, InBlockComment, InString,
            Enter, EnterOver
<1>1. \A x : Turn(InMode("code", b), "quote", x) = InMode("string", b)
    OBVIOUS
<1>2. \A x : Turn(InMode("string", b), "backslash", x) = Escaped(b)
    OBVIOUS
<1>3. \A c, x : Turn(Escaped(b), c, x) = InMode("string", b)
    OBVIOUS
<1>4. \A x : Turn(InMode("string", b), "quote", x) = InMode("code", b)
    OBVIOUS
<1>5. \A c, x : c \notin {"quote", "backslash"} =>
          Turn(InMode("string", b), c, x) = InMode("string", b)
    OBVIOUS
<1> HIDE DEF InMode, Skipping, Escaped, Turn
<1> QED
    BY <1>1, <1>2, <1>3, <1>4, <1>5

\* A function reads a text from a state on, and its last turn looks at nothing
\* that may follow.
Reads(f, s, from) ==
    /\ f[0] = from
    /\ \A i \in 1..Len(s) : f[i] = Turn(f[i - 1], s[i], At(s, i + 1))
Settled(f, s) ==
    Len(s) > 0 => \A c : f[Len(s)] = Turn(f[Len(s) - 1], s[Len(s)], c)

LEMMA ReadOn ==
    ASSUME NEW s \in Seq(Characters), NEW t \in Seq(Characters), NEW f, NEW h,
           IsScan(f, s), Settled(f, s), Reads(h, t, f[Len(s)]), Settled(h, t)
    PROVE  \E g : IsScan(g, s \o t) /\ g[Len(s \o t)] = h[Len(t)] /\ Settled(g, s \o t)
<1> DEFINE n == Len(s)  k == Len(t)  w == s \o t
<1> DEFINE g == [i \in 0..(n + k) |-> IF i <= n THEN f[i] ELSE h[i - n]]
<1>1. /\ n \in Nat /\ k \in Nat /\ Len(w) = n + k
      /\ DOMAIN s = 1..n /\ DOMAIN t = 1..k /\ DOMAIN w = 1..(n + k)
      /\ \A i \in 1..(n + k) : w[i] = IF i <= n THEN s[i] ELSE t[i - n]
    BY ConcatProperties
<1>2. /\ \A i \in 0..n : f[i] = IF i = 0 THEN Scanner ELSE Turn(f[i - 1], s[i], At(s, i + 1))
      /\ h[0] = f[n] /\ \A i \in 1..k : h[i] = Turn(h[i - 1], t[i], At(t, i + 1))
    BY DEF IsScan, Reads
<1>3. /\ \A i \in 1..(n - 1) : At(w, i + 1) = At(s, i + 1)
      /\ \A i \in 1..k : At(w, n + i + 1) = At(t, i + 1)
    <2>1. \A i \in 1..(n - 1) : i + 1 \in 1..n /\ i + 1 \in 1..(n + k)
        BY <1>1
    <2>2. \A i \in 1..k : /\ i + 1 \in 1..k <=> n + i + 1 \in 1..(n + k)
                          /\ ~(n + i + 1 <= n) /\ n + i + 1 - n = i + 1
        BY <1>1
    <2> HIDE DEF n, k, w
    <2> QED BY <1>1, <2>1, <2>2 DEF At
<1> HIDE DEF n, k, w
<1>4. ASSUME NEW i \in 0..(n + k)
      PROVE  g[i] = IF i = 0 THEN Scanner ELSE Turn(g[i - 1], w[i], At(w, i + 1))
    <2>1. CASE i <= n - 1
        <3>1. i \in 0..n /\ (i # 0 => i \in 1..(n - 1) /\ i - 1 \in 0..n /\ i \in 1..(n + k))
            BY <1>1, <2>1
        <3>2. g[i] = f[i] /\ (i # 0 => g[i - 1] = f[i - 1] /\ w[i] = s[i])
            BY <1>1, <3>1
        <3> QED BY <1>2, <1>3, <3>1, <3>2
    <2>2. CASE i = n
        <3>1. n = 0 => g[i] = Scanner
            BY <1>1, <1>2, <2>2
        <3>2. n > 0 => g[i] = f[n] /\ g[i - 1] = f[n - 1] /\ w[i] = s[n]
            BY <1>1, <2>2
        <3>3. n > 0 => f[n] = Turn(f[n - 1], s[n], At(w, n + 1))
            BY DEF Settled, n
        <3> QED BY <1>1, <2>2, <3>1, <3>2, <3>3
    <2>3. CASE i > n
        <3>1. PICK j \in 1..k : i = n + j
            <4>1. i - n \in 1..k /\ i = n + (i - n)
                BY <1>1, <2>3
            <4> QED BY <4>1
        <3>2. g[i] = h[j] /\ w[i] = t[j]
            BY <1>1, <2>3, <3>1
        <3>3. g[i - 1] = h[j - 1]
            <4>1. CASE j = 1
                BY <1>1, <1>2, <3>1, <4>1
            <4>2. CASE j > 1
                BY <1>1, <3>1, <4>2
            <4> QED BY <1>1, <3>1, <4>1, <4>2
        <3>4. i # 0 /\ i + 1 = n + j + 1
            BY <1>1, <3>1
        <3> QED BY <1>2, <1>3, <3>1, <3>2, <3>3, <3>4
    <2> QED BY <1>1, <2>1, <2>2, <2>3
<1>5. IsScan(g, w)
    <2>1. g = [i \in 0..Len(w) |-> g[i]]
        BY <1>1
    <2> HIDE DEF g
    <2> QED BY <1>1, <1>4, <2>1 DEF IsScan
<1>6. g[n + k] = h[k]
    <2>1. CASE k = 0
        BY <1>1, <1>2, <2>1
    <2>2. CASE k > 0
        BY <1>1, <2>2
    <2> QED BY <1>1, <2>1, <2>2
<1>7. Settled(g, w)
    <2>1. CASE k > 0
        <3>1. w[n + k] = t[k] /\ (k > 1 => g[n + k - 1] = h[k - 1])
            BY <1>1, <2>1
        <3>2. g[n + k - 1] = h[k - 1]
            <4>1. CASE k = 1
                BY <1>1, <1>2, <4>1
            <4> QED BY <1>1, <2>1, <3>1, <4>1
        <3>3. \A c : h[k] = Turn(h[k - 1], t[k], c)
            BY <2>1 DEF Settled, k
        <3> HIDE DEF g
        <3> QED BY <1>1, <1>6, <3>1, <3>2, <3>3 DEF Settled
    <2>2. CASE k = 0
        <3>1. n + k = n
            BY <1>1, <2>2
        <3>2. n > 0 => g[n] = f[n] /\ g[n - 1] = f[n - 1] /\ w[n] = s[n]
            BY <1>1, <2>2
        <3>3. n > 0 => \A c : f[n] = Turn(f[n - 1], s[n], c)
            BY DEF Settled, n
        <3> HIDE DEF g
        <3> QED BY <1>1, <3>1, <3>2, <3>3 DEF Settled
    <2> QED BY <1>1, <2>1, <2>2
<1> QED
    BY <1>1, <1>5, <1>6, <1>7 DEF n, k, w

\* A lexeme is a text that the loop reads from between two lexemes, in code, to
\* between two lexemes, counting what it contributes.
ReadFrom(l, b, h) ==
    /\ Reads(h, l.text, InMode("code", b))
    /\ h[Len(l.text)] = InMode("code", <<b[1] + l.open, b[2] + l.close>>)
    /\ Settled(h, l.text)
Read(l) == l.text \in Seq(Characters) /\ \A b \in Nat \X Nat : \E h : ReadFrom(l, b, h)

LEMMA ReadUncounted ==
    ASSUME NEW w \in Seq(Characters),
           \A b \in Nat \X Nat : \E h :
                Reads(h, w, InMode("code", b)) /\ h[Len(w)] = InMode("code", b) /\ Settled(h, w)
    PROVE  Read(Lexeme(w, 0, 0))
<1>1. ASSUME NEW b \in Nat \X Nat PROVE <<b[1] + 0, b[2] + 0>> = b
    OBVIOUS
<1>2. /\ Lexeme(w, 0, 0).text = w
      /\ Lexeme(w, 0, 0).open = 0 /\ Lexeme(w, 0, 0).close = 0
    BY DEF Lexeme
<1> QED
    BY <1>1, <1>2 DEF Read, ReadFrom

LEMMA CharacterRead ==
    ASSUME NEW c \in Characters, NEW o \in Nat, NEW e \in Nat,
           \A b \in Nat \X Nat : \A x :
                Turn(InMode("code", b), c, x) = InMode("code", <<b[1] + o, b[2] + e>>)
    PROVE  Read(Lexeme(<<c>>, o, e))
<1>1. /\ Lexeme(<<c>>, o, e).text = <<c>>
      /\ Lexeme(<<c>>, o, e).open = o /\ Lexeme(<<c>>, o, e).close = e
    BY DEF Lexeme
<1>2. Len(<<c>>) = 1 /\ <<c>>[1] = c /\ <<c>> \in Seq(Characters) /\ 1 - 1 = 0
    OBVIOUS
<1>3. ASSUME NEW b \in Nat \X Nat PROVE \E h : ReadFrom(Lexeme(<<c>>, o, e), b, h)
    <2> DEFINE to == InMode("code", <<b[1] + o, b[2] + e>>)
               h == [i \in 0..1 |-> IF i = 0 THEN InMode("code", b) ELSE to]
    <2>1. h[0] = InMode("code", b) /\ h[1] = to
        OBVIOUS
    <2> HIDE DEF h
    <2>2. \A x : h[1] = Turn(h[0], c, x)
        BY <2>1
    <2>3. \A i \in 1..1 : i = 1
        OBVIOUS
    <2>4. Reads(h, <<c>>, InMode("code", b))
        BY <1>2, <2>1, <2>2, <2>3 DEF Reads
    <2>5. Settled(h, <<c>>)
        BY <1>2, <2>2 DEF Settled
    <2> QED BY <1>1, <1>2, <2>1, <2>4, <2>5 DEF ReadFrom
<1> QED
    BY <1>1, <1>2, <1>3 DEF Read

LEMMA CodeRead == \A l \in Codes : Read(l)
<1>1. ASSUME NEW b \in Nat \X Nat
      PROVE  /\ <<b[1] + 0, b[2] + 0>> = b
             /\ b[1] + 0 = b[1] /\ b[2] + 0 = b[2]
    OBVIOUS
<1>2. Read(Lexeme(<<"open">>, 1, 0))
    <2>1. ASSUME NEW b \in Nat \X Nat, NEW x
          PROVE  Turn(InMode("code", b), "open", x) = InMode("code", <<b[1] + 1, b[2] + 0>>)
        <3>1. Turn(InMode("code", b), "open", x) = InMode("code", <<b[1] + 1, b[2]>>)
            BY CodeTurns
        <3> QED BY <1>1, <3>1
    <2> QED BY <2>1, CharacterRead DEF Characters
<1>3. Read(Lexeme(<<"close">>, 0, 1))
    <2>1. ASSUME NEW b \in Nat \X Nat, NEW x
          PROVE  Turn(InMode("code", b), "close", x) = InMode("code", <<b[1] + 0, b[2] + 1>>)
        <3>1. Turn(InMode("code", b), "close", x) = InMode("code", <<b[1], b[2] + 1>>)
            BY CodeTurns
        <3> QED BY <1>1, <3>1
    <2> QED BY <2>1, CharacterRead DEF Characters
<1>4. ASSUME NEW b, NEW c \in {"letter", "star", "backslash", "newline"}, NEW x
      PROVE  Turn(InMode("code", b), c, x) = InMode("code", b)
    <2>1. c \notin {"open", "close", "quote", "slash"}
        OBVIOUS
    <2> QED BY <2>1, CodeTurns
<1>5. \A c \in {"letter", "star", "backslash", "newline"} : Read(Lexeme(<<c>>, 0, 0))
    <2> SUFFICES ASSUME NEW c \in {"letter", "star", "backslash", "newline"}
                 PROVE  Read(Lexeme(<<c>>, 0, 0))
        OBVIOUS
    <2>1. ASSUME NEW b \in Nat \X Nat, NEW x
          PROVE  Turn(InMode("code", b), c, x) = InMode("code", <<b[1] + 0, b[2] + 0>>)
        BY <1>1, <1>4
    <2> QED BY <2>1, CharacterRead DEF Characters
<1>6. Read(Lexeme(<<"slash", "letter">>, 0, 0))
    <2> DEFINE s == <<"slash", "letter">>
    <2>1. Len(s) = 2 /\ s[1] = "slash" /\ s[2] = "letter" /\ s \in Seq(Characters)
        BY DEF Characters
    <2>2. At(s, 2) = "letter"
        BY <2>1 DEF At
    <2> HIDE DEF s
    <2>3. ASSUME NEW b \in Nat \X Nat
          PROVE  \E h : Reads(h, s, InMode("code", b)) /\ h[2] = InMode("code", b) /\ Settled(h, s)
        <3> DEFINE h == [i \in 0..2 |-> InMode("code", b)]
        <3>1. h[0] = InMode("code", b) /\ h[1] = InMode("code", b) /\ h[2] = InMode("code", b)
            OBVIOUS
        <3> HIDE DEF h
        <3>2. h[1] = Turn(h[0], "slash", "letter") /\ \A x : h[2] = Turn(h[1], "letter", x)
            <4>1. Turn(InMode("code", b), "slash", "letter") = InMode("code", b)
                BY CodeTurns
            <4>2. \A x : Turn(InMode("code", b), "letter", x) = InMode("code", b)
                BY <1>4
            <4> QED BY <3>1, <4>1, <4>2
        <3>3. (\A i \in 1..2 : i = 1 \/ i = 2) /\ 1 - 1 = 0 /\ 2 - 1 = 1 /\ 1 + 1 = 2
            OBVIOUS
        <3>4. Reads(h, s, InMode("code", b))
            BY <2>1, <2>2, <3>1, <3>2, <3>3 DEF Reads
        <3>5. Settled(h, s)
            BY <2>1, <3>2, <3>3 DEF Settled
        <3> QED BY <3>1, <3>4, <3>5
    <2> QED BY <2>1, <2>3, ReadUncounted DEF s
<1> QED
    BY <1>2, <1>3, <1>5, <1>6 DEF Codes

\* What stands between the ends of a string or a comment.
LEMMA Enclosed ==
    ASSUME NEW before \in Seq(Characters), NEW t \in Seq(Characters), NEW after \in Seq(Characters)
    PROVE  LET w == before \o t \o after
               n == Len(before)
               k == Len(t)
           IN  /\ w \in Seq(Characters) /\ Len(w) = n + k + Len(after)
               /\ DOMAIN w = 1..(n + k + Len(after))
               /\ \A i \in 1..n : w[i] = before[i]
               /\ \A i \in 1..k : w[n + i] = t[i]
               /\ \A i \in 1..Len(after) : w[n + k + i] = after[i]
<1> DEFINE n == Len(before)  k == Len(t)  a == Len(after)  v == before \o t  w == v \o after
<1>1. n \in Nat /\ k \in Nat /\ a \in Nat
    OBVIOUS
<1>2. /\ v \in Seq(Characters) /\ Len(v) = n + k
      /\ \A i \in 1..(n + k) : v[i] = IF i <= n THEN before[i] ELSE t[i - n]
    BY ConcatProperties
<1>3. /\ w \in Seq(Characters) /\ Len(w) = n + k + a /\ DOMAIN w = 1..(n + k + a)
      /\ \A i \in 1..(n + k + a) : w[i] = IF i <= n + k THEN v[i] ELSE after[i - (n + k)]
    <2> HIDE DEF v
    <2>1. v \in Seq(Characters) /\ Len(v) = n + k /\ after \in Seq(Characters)
        BY <1>2
    <2>2. Len(v \o after) = Len(v) + Len(after)
        BY <2>1, ConcatProperties
    <2> QED BY <2>1, <2>2, ConcatProperties DEF w
<1> HIDE DEF v, w, n, k, a
<1>4. \A i \in 1..n : w[i] = before[i]
    BY <1>1, <1>2, <1>3
<1>5. \A i \in 1..k : w[n + i] = t[i]
    BY <1>1, <1>2, <1>3
<1>6. \A i \in 1..a : w[n + k + i] = after[i]
    BY <1>1, <1>2, <1>3
<1> QED
    BY <1>3, <1>4, <1>5, <1>6 DEF w, v, n, k, a

LEMMA LineCommentRead ==
    ASSUME NEW t \in LineRemarks
    PROVE  Read(Lexeme(<<"slash", "slash">> \o t \o <<"newline">>, 0, 0))
<1> DEFINE k == Len(t)  w == <<"slash", "slash">> \o t \o <<"newline">>
<1>1. t \in Seq(Characters) /\ k \in Nat /\ \A i \in 1..k : t[i] # "newline"
    BY RuleConstants DEF RuleConstants
<1>2. /\ w \in Seq(Characters) /\ Len(w) = k + 3 /\ DOMAIN w = 1..(k + 3)
      /\ w[1] = "slash" /\ w[2] = "slash" /\ w[k + 3] = "newline"
      /\ \A i \in 1..k : w[2 + i] = t[i]
    <2>1. <<"slash", "slash">> \in Seq(Characters) /\ <<"newline">> \in Seq(Characters)
        BY DEF Characters
    <2> HIDE DEF k
    <2> QED BY <1>1, <2>1, Enclosed DEF k
<1>3. ASSUME NEW b \in Nat \X Nat
      PROVE  \E h : Reads(h, w, InMode("code", b)) /\ h[k + 3] = InMode("code", b) /\ Settled(h, w)
    <2> HIDE DEF w, k
    <2> DEFINE h == [i \in 0..(k + 3) |->
                        IF i = 0 \/ i = k + 3 THEN InMode("code", b)
                        ELSE IF i = 1 THEN Skipping("line", b) ELSE InMode("line", b)]
    <2>1. /\ h[0] = InMode("code", b) /\ h[1] = Skipping("line", b) /\ h[k + 3] = InMode("code", b)
          /\ \A i \in 2..(k + 2) : h[i] = InMode("line", b)
        BY <1>1
    <2> HIDE DEF h
    <2>2. \A x : h[k + 3] = Turn(h[k + 2], w[k + 3], x)
        <3>1. k + 2 \in 2..(k + 2)
            BY <1>1
        <3> QED BY <1>2, <2>1, <3>1, LineTurns
    <2>3. ASSUME NEW i \in 1..(k + 3) PROVE h[i] = Turn(h[i - 1], w[i], At(w, i + 1))
        <3>1. CASE i = 1
            <4>1. At(w, 2) = "slash"
                BY <1>1, <1>2 DEF At
            <4> QED BY <1>2, <2>1, <3>1, <4>1, LineTurns
        <3>2. CASE i = 2
            <4>1. 2 \in 2..(k + 2) /\ i - 1 = 1
                BY <1>1, <3>2
            <4> QED BY <2>1, <3>2, <4>1, LineTurns
        <3>3. CASE i \in 3..(k + 2)
            <4>1. i - 1 \in 2..(k + 2) /\ i \in 2..(k + 2) /\ i - 2 \in 1..k /\ i = 2 + (i - 2)
                BY <1>1, <3>3
            <4>2. w[i] # "newline"
                BY <1>1, <1>2, <4>1
            <4> QED BY <2>1, <4>1, <4>2, LineTurns
        <3>4. CASE i = k + 3
            <4>1. i - 1 = k + 2
                BY <1>1, <3>4
            <4> QED BY <2>2, <3>4, <4>1
        <3> QED BY <1>1, <3>1, <3>2, <3>3, <3>4
    <2>4. Reads(h, w, InMode("code", b))
        BY <1>2, <2>1, <2>3 DEF Reads
    <2>5. Settled(h, w)
        <3>1. k + 3 - 1 = k + 2
            BY <1>1
        <3>2. ASSUME NEW x PROVE h[Len(w)] = Turn(h[Len(w) - 1], w[Len(w)], x)
            <4>1. h[k + 3] = Turn(h[k + 2], w[k + 3], x)
                BY <2>2
            <4> QED BY <1>1, <1>2, <3>1, <4>1
        <3> QED BY <3>2 DEF Settled
    <2> QED BY <2>1, <2>4, <2>5
<1> HIDE DEF w, k
<1>4. Read(Lexeme(w, 0, 0))
    BY <1>2, <1>3, ReadUncounted
<1> QED
    BY <1>4 DEF w

LEMMA BlockCommentRead ==
    ASSUME NEW t \in BlockRemarks
    PROVE  Read(Lexeme(<<"slash", "star">> \o t \o <<"star", "slash">>, 0, 0))
<1> DEFINE k == Len(t)  w == <<"slash", "star">> \o t \o <<"star", "slash">>
<1>1. /\ t \in Seq(Characters) /\ k \in Nat
      /\ \A i \in 1..(k - 1) : ~(t[i] = "star" /\ t[i + 1] = "slash")
    BY RuleConstants DEF RuleConstants
<1>2. /\ w \in Seq(Characters) /\ Len(w) = k + 4 /\ DOMAIN w = 1..(k + 4)
      /\ w[1] = "slash" /\ w[2] = "star" /\ w[k + 3] = "star" /\ w[k + 4] = "slash"
      /\ \A i \in 1..k : w[2 + i] = t[i]
    <2>1. <<"slash", "star">> \in Seq(Characters) /\ <<"star", "slash">> \in Seq(Characters)
        BY DEF Characters
    <2>2. 2 + k + 1 = k + 3 /\ 2 + k + 2 = k + 4
        BY <1>1
    <2> HIDE DEF k
    <2> QED BY <1>1, <2>1, <2>2, Enclosed DEF k
<1>3. ASSUME NEW b \in Nat \X Nat
      PROVE  \E h : Reads(h, w, InMode("code", b)) /\ h[k + 4] = InMode("code", b) /\ Settled(h, w)
    <2> HIDE DEF w, k
    <2> DEFINE h == [i \in 0..(k + 4) |->
                        IF i = 0 \/ i = k + 4 THEN InMode("code", b)
                        ELSE IF i = 1 THEN Skipping("block", b)
                        ELSE IF i = k + 3 THEN Skipping("code", b) ELSE InMode("block", b)]
    <2>1. /\ h[0] = InMode("code", b) /\ h[1] = Skipping("block", b)
          /\ h[k + 3] = Skipping("code", b) /\ h[k + 4] = InMode("code", b)
          /\ \A i \in 2..(k + 2) : h[i] = InMode("block", b)
        BY <1>1
    <2> HIDE DEF h
    <2>2. \A i \in 3..(k + 2) : ~(w[i] = "star" /\ w[i + 1] = "slash")
        <3> SUFFICES ASSUME NEW i \in 3..(k + 2) PROVE ~(w[i] = "star" /\ w[i + 1] = "slash")
            OBVIOUS
        <3>1. i - 2 \in 1..k /\ i = 2 + (i - 2)
            BY <1>1
        <3>2. w[i] = t[i - 2]
            BY <1>2, <3>1
        <3>3. CASE i = k + 2
            <4>1. w[i + 1] = "star"
                BY <1>1, <1>2, <3>3
            <4> QED BY <4>1
        <3>4. CASE i < k + 2
            <4>1. i - 1 \in 1..k /\ i + 1 = 2 + (i - 1) /\ i - 2 \in 1..(k - 1) /\ i - 2 + 1 = i - 1
                BY <1>1, <3>4
            <4>2. w[i + 1] = t[i - 2 + 1]
                BY <1>2, <4>1
            <4> QED BY <1>1, <3>2, <4>1, <4>2
        <3> QED BY <1>1, <3>3, <3>4
    <2>3. \A x : h[k + 4] = Turn(h[k + 3], w[k + 4], x)
        BY <2>1, BlockTurns
    <2>4. ASSUME NEW i \in 1..(k + 4) PROVE h[i] = Turn(h[i - 1], w[i], At(w, i + 1))
        <3>1. CASE i = 1
            <4>1. At(w, 2) = "star"
                BY <1>1, <1>2 DEF At
            <4> QED BY <1>2, <2>1, <3>1, <4>1, BlockTurns
        <3>2. CASE i = 2
            <4>1. 2 \in 2..(k + 2) /\ i - 1 = 1
                BY <1>1, <3>2
            <4> QED BY <2>1, <3>2, <4>1, BlockTurns
        <3>3. CASE i \in 3..(k + 2)
            <4>1. i - 1 \in 2..(k + 2) /\ i \in 2..(k + 2) /\ i + 1 \in 1..(k + 4)
                BY <1>1, <3>3
            <4>2. At(w, i + 1) = w[i + 1]
                BY <1>2, <4>1 DEF At
            <4> QED BY <2>1, <2>2, <3>3, <4>1, <4>2, BlockTurns
        <3>4. CASE i = k + 3
            <4>1. i - 1 = k + 2 /\ k + 2 \in 2..(k + 2) /\ i + 1 = k + 4 /\ k + 4 \in 1..(k + 4)
                BY <1>1, <3>4
            <4>2. At(w, k + 4) = "slash"
                BY <1>2, <4>1 DEF At
            <4> QED BY <1>2, <2>1, <3>4, <4>1, <4>2, BlockTurns
        <3>5. CASE i = k + 4
            <4>1. i - 1 = k + 3
                BY <1>1, <3>5
            <4> QED BY <2>3, <3>5, <4>1
        <3> QED BY <1>1, <3>1, <3>2, <3>3, <3>4, <3>5
    <2>5. Reads(h, w, InMode("code", b))
        BY <1>2, <2>1, <2>4 DEF Reads
    <2>6. Settled(h, w)
        <3>1. k + 4 - 1 = k + 3
            BY <1>1
        <3>2. ASSUME NEW x PROVE h[Len(w)] = Turn(h[Len(w) - 1], w[Len(w)], x)
            <4>1. h[k + 4] = Turn(h[k + 3], w[k + 4], x)
                BY <2>3
            <4> QED BY <1>1, <1>2, <3>1, <4>1
        <3> QED BY <3>2 DEF Settled
    <2> QED BY <2>1, <2>5, <2>6
<1> HIDE DEF w, k
<1>4. Read(Lexeme(w, 0, 0))
    BY <1>2, <1>3, ReadUncounted
<1> QED
    BY <1>4 DEF w

LEMMA StringRead ==
    ASSUME NEW t \in Insides
    PROVE  Read(Lexeme(<<"quote">> \o t \o <<"quote">>, 0, 0))
<1> DEFINE k == Len(t)  w == <<"quote">> \o t \o <<"quote">>
<1>1. t \in Seq(Characters) /\ k \in Nat /\ Quotable(t)
    BY RuleConstants DEF RuleConstants
<1>2. PICK escapes \in [0..k -> BOOLEAN] :
        /\ ~escapes[0] /\ ~escapes[k]
        /\ \A i \in 1..k : /\ escapes[i] <=> t[i] = "backslash" /\ ~escapes[i - 1]
                           /\ t[i] = "quote" => escapes[i - 1]
    BY <1>1 DEF Quotable
<1>3. /\ w \in Seq(Characters) /\ Len(w) = k + 2 /\ DOMAIN w = 1..(k + 2)
      /\ w[1] = "quote" /\ w[k + 2] = "quote"
      /\ \A i \in 1..k : w[1 + i] = t[i]
    <2>1. <<"quote">> \in Seq(Characters)
        BY DEF Characters
    <2>2. 1 + k + 1 = k + 2
        BY <1>1
    <2> HIDE DEF k
    <2> QED BY <1>1, <2>1, <2>2, Enclosed DEF k
<1>4. ASSUME NEW b \in Nat \X Nat
      PROVE  \E h : Reads(h, w, InMode("code", b)) /\ h[k + 2] = InMode("code", b) /\ Settled(h, w)
    <2> HIDE DEF w, k
    <2> DEFINE h == [i \in 0..(k + 2) |->
                        IF i = 0 \/ i = k + 2 THEN InMode("code", b)
                        ELSE IF escapes[i - 1] THEN Escaped(b) ELSE InMode("string", b)]
    <2>1. /\ h[0] = InMode("code", b) /\ h[k + 2] = InMode("code", b)
          /\ \A i \in 1..(k + 1) :
                h[i] = IF escapes[i - 1] THEN Escaped(b) ELSE InMode("string", b)
        BY <1>1
    <2> HIDE DEF h
    <2>2. h[1] = InMode("string", b) /\ h[k + 1] = InMode("string", b)
        <3>1. 1 \in 1..(k + 1) /\ k + 1 \in 1..(k + 1) /\ 1 - 1 = 0 /\ k + 1 - 1 = k
            BY <1>1
        <3>2. h[1] = (IF escapes[0] THEN Escaped(b) ELSE InMode("string", b))
            BY <2>1, <3>1
        <3>3. h[k + 1] = (IF escapes[k] THEN Escaped(b) ELSE InMode("string", b))
            <4> DEFINE i == k + 1
            <4>1. i \in 1..(k + 1) /\ i - 1 = k
                BY <1>1, <3>1
            <4> HIDE DEF i
            <4>2. h[i] = (IF escapes[i - 1] THEN Escaped(b) ELSE InMode("string", b))
                BY <2>1, <4>1
            <4> QED BY <4>1, <4>2 DEF i
        <3> QED BY <1>2, <3>1, <3>2, <3>3
    <2>3. ASSUME NEW i \in 1..(k + 2), NEW x PROVE h[i] = Turn(h[i - 1], w[i], x)
        <3>1. CASE i = 1
            <4>1. i - 1 = 0
                BY <3>1
            <4> QED BY <1>3, <2>1, <2>2, <3>1, <4>1, StringTurns
        <3>2. CASE i \in 2..(k + 1)
            <4>1. PICK j \in 1..k : j = i - 1 /\ i = 1 + j
                <5>1. i - 1 \in 1..k /\ i = 1 + (i - 1)
                    BY <1>1, <3>2
                <5> QED BY <5>1
            <4>2. i - 1 \in 1..(k + 1) /\ i \in 1..(k + 1) /\ i - 1 = j /\ i - 1 - 1 = j - 1
                BY <1>1, <4>1
            <4>3. /\ h[i] = IF escapes[j] THEN Escaped(b) ELSE InMode("string", b)
                  /\ h[i - 1] = IF escapes[j - 1] THEN Escaped(b) ELSE InMode("string", b)
                BY <2>1, <4>2
            <4>4. w[i] = t[j]
                BY <1>3, <4>1
            <4>5. /\ escapes[j] <=> t[j] = "backslash" /\ ~escapes[j - 1]
                  /\ t[j] = "quote" => escapes[j - 1]
                BY <1>2
            <4>6. CASE escapes[j - 1]
                BY <4>3, <4>4, <4>5, <4>6, StringTurns
            <4>7. CASE ~escapes[j - 1] /\ t[j] = "backslash"
                BY <4>3, <4>4, <4>5, <4>7, StringTurns
            <4>8. CASE ~escapes[j - 1] /\ t[j] # "backslash"
                <5>1. t[j] \notin {"quote", "backslash"}
                    BY <4>5, <4>8
                <5> QED BY <4>3, <4>4, <4>5, <4>8, <5>1, StringTurns
            <4> QED BY <4>6, <4>7, <4>8
        <3>3. CASE i = k + 2
            <4>1. i - 1 = k + 1
                BY <1>1, <3>3
            <4> QED BY <1>3, <2>1, <2>2, <3>3, <4>1, StringTurns
        <3> QED BY <1>1, <3>1, <3>2, <3>3
    <2>4. Reads(h, w, InMode("code", b))
        BY <1>3, <2>1, <2>3 DEF Reads
    <2>5. Settled(h, w)
        <3>1. k + 2 \in 1..(k + 2)
            BY <1>1
        <3> QED BY <1>3, <2>3, <3>1 DEF Settled
    <2> QED BY <2>1, <2>4, <2>5
<1> HIDE DEF w, k
<1>5. Read(Lexeme(w, 0, 0))
    BY <1>3, <1>4, ReadUncounted
<1> QED
    BY <1>5 DEF w

LEMMA LexemeRead == \A l \in Lexemes : Read(l) /\ l.open \in Nat /\ l.close \in Nat
<1>1. \A l \in Lexemes : l.open \in Nat /\ l.close \in Nat
    BY DEF Lexemes, Strings, Comments, Codes, Lexeme
<1> QED
    BY <1>1, CodeRead, StringRead, LineCommentRead, BlockCommentRead DEF Lexemes, Strings, Comments

\* The loop reads a text to its end, counts b in it, and is then between two
\* lexemes, so that nothing that follows changes that.
Counts(s, b) ==
    \E f : IsScan(f, s) /\ f[Len(s)] = InMode("code", b) /\ Settled(f, s)

RuleInv ==
    rule \in Seq(Characters) /\ braces \in Nat \X Nat /\ Counts(rule, braces)

LEMMA RuleStart == RuleInit => RuleInv
<1> SUFFICES ASSUME RuleInit PROVE RuleInv
    OBVIOUS
<1>1. rule = <<>> /\ Len(rule) = 0 /\ rule \in Seq(Characters) /\ braces = <<0, 0>>
    BY DEF RuleInit
<1> DEFINE f == [i \in 0..0 |-> Scanner]
<1>2. IsScan(f, rule)
    BY <1>1 DEF IsScan
<1>3. f[0] = InMode("code", braces)
    BY <1>1 DEF Scanner, InMode
<1>4. Settled(f, rule)
    BY <1>1 DEF Settled
<1> QED
    BY <1>1, <1>2, <1>3, <1>4 DEF RuleInv, Counts

LEMMA RuleStep == RuleInv /\ [\E l \in Lexemes : WriteLexeme(l)]_ruleVars => RuleInv'
<1> SUFFICES ASSUME RuleInv, [\E l \in Lexemes : WriteLexeme(l)]_ruleVars PROVE RuleInv'
    OBVIOUS
<1>1. ASSUME NEW l \in Lexemes, WriteLexeme(l) PROVE RuleInv'
    <2>1. PICK f : IsScan(f, rule) /\ f[Len(rule)] = InMode("code", braces) /\ Settled(f, rule)
        BY DEF RuleInv, Counts
    <2>2. /\ rule' = rule \o l.text /\ braces' = <<braces[1] + l.open, braces[2] + l.close>>
          /\ rule \in Seq(Characters) /\ l.text \in Seq(Characters) /\ braces \in Nat \X Nat
        BY <1>1, LexemeRead DEF WriteLexeme, RuleInv, Read
    <2>3. PICK h : /\ Reads(h, l.text, InMode("code", braces))
                   /\ h[Len(l.text)] = InMode("code", <<braces[1] + l.open, braces[2] + l.close>>)
                   /\ Settled(h, l.text)
        BY <2>2, LexemeRead DEF Read, ReadFrom
    <2>4. \E g : IsScan(g, rule \o l.text) /\ g[Len(rule \o l.text)] = h[Len(l.text)]
                 /\ Settled(g, rule \o l.text)
        BY <2>1, <2>2, <2>3, ReadOn
    <2>5. Counts(rule \o l.text, <<braces[1] + l.open, braces[2] + l.close>>)
        BY <2>3, <2>4 DEF Counts
    <2>6. rule' \in Seq(Characters) /\ braces' \in Nat \X Nat
        BY <2>2, LexemeRead, ConcatProperties
    <2>7. Counts(rule', braces')
        BY <2>2, <2>5
    <2> QED BY <2>6, <2>7 DEF RuleInv
<1>2. CASE UNCHANGED ruleVars
    BY <1>2 DEF ruleVars, RuleInv
<1> QED
    BY <1>1, <1>2

\* countBraces counts the braces that are code and no others, for a text of any
\* number of lexemes, with anything in its strings and comments.
THEOREM BracesAreCountedAlways == RuleSpec => []BracesAreCounted
<1>1. RuleInv => BracesAreCounted
    <2> SUFFICES ASSUME RuleInv PROVE BracesAreCounted
        OBVIOUS
    <2>1. PICK f : IsScan(f, rule) /\ f[Len(rule)] = InMode("code", braces)
        BY DEF RuleInv, Counts
    <2>2. Scan(rule) = f
        BY <2>1, ScanIs DEF RuleInv
    <2> QED BY <2>1, <2>2 DEF RuleInv, BracesAreCounted, countBraces, InMode
<1> QED
    BY RuleStart, RuleStep, <1>1, PTL DEF RuleSpec
=============================================================================
