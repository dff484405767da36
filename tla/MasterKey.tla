----------------------------- MODULE MasterKey ------------------------------
(***************************************************************************)
(* EnsureMasterKey (internal/crypto/keygen.go) at each start of the process, *)
(* on the lines of the .env file. Reader and writer do not agree on what a   *)
(* key line is: the reader trims what is left of the equals sign, the writer *)
(* wants the name right before it.                                           *)
(***************************************************************************)
EXTENDS Naturals, Sequences, SequencesExt

CONSTANTS
    MaxLines,       \* bound: lines of the file that is found at first
    MaxStarts       \* bound: starts of the process

ASSUME KeyConstants == MaxLines \in Nat /\ MaxStarts \in Nat

VARIABLES
    origin,     \* the file before the first start
    env,        \* the file
    starts,     \* how many starts there were
    keys        \* the keys of the starts that came to serve

keyVars == <<origin, env, starts, keys>>

\* A line: ENCRYPTION_KEY=v, ENCRYPTION_KEY = v, or anything else, a comment
\* for example. Quotes and blanks around the value are trimmed.
Line(form, value) == [form |-> form, value |-> value]

\* Values: no text, text that is no key, the key of an earlier installation, and
\* the key of the n-th start, 256 random bits that nothing else had.
Nothing == 0
Malformed == 1
OldKey == 2
Generated(n) == OldKey + n
ParseMasterKey(value) == value \notin {Nothing, Malformed}

Missing == <<Line("missing", Nothing)>>     \* there is no file

\* The scan of the file for its first line of a form, 0 when there is none.
FirstLine(file, forms) ==
    LET Has(line) == line.form \in forms IN SelectInSeq(file, Has)

\* The value of the first key line.
readKeyFromEnv ==
    LET first == FirstLine(env, {"tight", "spaced"})
    IN IF first = 0 THEN Nothing ELSE env[first].value

HasKey == ParseMasterKey(readKeyFromEnv)

\* The file with the new key: in place of the first line the writer knows as a
\* key line, or as a last line.
AppendEnv(key) ==
    IF env = Missing THEN <<Line("tight", key)>> ELSE Append(env, Line("tight", key))

appendOrWriteEnv(key) ==
    LET first == FirstLine(env, {"tight"})
    IN IF env = Missing THEN <<Line("other", Nothing), Line("tight", key)>>
       ELSE IF first # 0 THEN ReplaceAt(env, first, Line("tight", key))
       ELSE Append(env, Line("tight", key))

Lines ==
    {Line(f, v) : f \in {"tight", "spaced"}, v \in {Nothing, Malformed, OldKey}}
        \cup {Line("other", Nothing)}

KeyInit ==
    /\ origin \in SeqOf(Lines, MaxLines) \cup {Missing} /\ env = origin
    /\ starts = 0 /\ keys = <<>>

Starting == starts < MaxStarts /\ starts' = starts + 1 /\ UNCHANGED origin

ExistingKey ==
    /\ Starting /\ HasKey
    /\ keys' = Append(keys, readKeyFromEnv) /\ UNCHANGED env

FreshKey ==
    /\ Starting /\ ~HasKey
    /\ keys' = Append(keys, Generated(starts')) /\ env' = appendOrWriteEnv(Generated(starts'))

\* os.WriteFile fails, or the process is killed in it: the start does not come
\* to serve, and the file is as it was or empty.
WriteCut ==
    /\ Starting /\ ~HasKey
    /\ env' \in {env, <<>>} /\ UNCHANGED keys

EnsureMasterKey == ExistingKey \/ FreshKey \/ WriteCut

KeySpec == KeyInit /\ [][EnsureMasterKey]_keyVars

-----------------------------------------------------------------------------
(* Properties *)

\* The first key line has blanks before the equals sign and no key after it.
Misread(file) ==
    \E i \in DOMAIN file :
        /\ file[i].form = "spaced" /\ ~ParseMasterKey(file[i].value)
        /\ \A h \in 1..(i - 1) : file[h].form = "other"

\* Every start that serves has the key of the first one that did, or nothing in
\* the vault could be decrypted any more; whatever the file looked like, and
\* whichever writes were cut. The exception is a file whose first key line is
\* spaced and holds no key: the reader stops at it and the writer does not see
\* it, so that every start has another key.
KeyIsStable ==
    Misread(origin) \/ \A i, j \in DOMAIN keys : keys[i] = keys[j]
=============================================================================
