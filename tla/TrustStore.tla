------------------------------ MODULE TrustStore ------------------------------
(***************************************************************************)
(* TrustStore of src-tauri/src/storage/trust_store.rs: the records of host *)
(* keys in the file known_hosts, with the copy the program works on.       *)
(*                                                                         *)
(* Every operation holds the store's lock from the load to the cache, and  *)
(* the file is replaced by a rename, so each is one step, and a crash      *)
(* leaves the file as it was before the step or after it.  Blank lines and *)
(* comments have no effect and are left out, and so is the order of lines. *)
(* A host is the sequence of its characters as the user has spelled it, as *)
(* far as the reading of a line depends on them; a port is one more.  A    *)
(* key stands for an algorithm and a blob.                                 *)
(***************************************************************************)
EXTENDS Integers, Sequences

CONSTANTS
    Endpoints,  \* [host, port] as configured
    Keys,
    NoKey       \* what is found where there is no record

VARIABLES
    file,       \* the lines of known_hosts, none if there is no file
    loaded,     \* TrustStoreState.records is Some
    records,    \* what is in it
    saved       \* history: the key last saved for each endpoint and not removed

tvars == <<file, loaded, records, saved>>

Ports == {e.port : e \in Endpoints}
Has(s, c) == \E i \in DOMAIN s : s[i] = c

FormatHostPattern(host, port) ==
    IF port # "22" \/ Has(host, ":") THEN <<"[">> \o host \o <<"]", ":", port>> ELSE host

\* The endpoint a pattern is read as, or none.  A bracketed host goes up to the
\* first bracket that closes, and a port is all that may follow it.
ParseHostPattern(p) ==
    IF p[1] = "["
    THEN {[host |-> SubSeq(p, 2, i - 1), port |-> p[i + 2]] :
             i \in {j \in 3 .. Len(p) - 2 :
                       /\ p[j] = "]" /\ ~Has(SubSeq(p, 2, j - 1), "]")
                       /\ Len(p) = j + 2 /\ p[j + 1] = ":" /\ p[j + 2] \in Ports}}
    ELSE IF Has(p, ":") THEN {} ELSE {[host |-> p, port |-> "22"]}

SerializeRecords(R) ==
    {[pattern |-> FormatHostPattern(r.end.host, r.end.port), key |-> r.key] : r \in R}

ParseEntry(line) == {[end |-> e, key |-> line.key] : e \in ParseHostPattern(line.pattern)}

\* What load_from_file may return: one line that is not read and nothing is.
LoadFromFile(f) ==
    IF \A line \in f : ParseEntry(line) # {} THEN {UNION {ParseEntry(line) : line \in f}} ELSE {}

\* A line that somebody else has spoilt.
Garbage == [pattern |-> <<"[">>, key |-> NoKey]
Spoilt == Garbage \in file

Init ==
    /\ file = {}
    /\ loaded = FALSE /\ records = {}
    /\ saved = [e \in Endpoints |-> NoKey]

-----------------------------------------------------------------------------
LoadedOpen ==                                                        \* variant
    IF loaded THEN {records} ELSE IF LoadFromFile(file) = {} THEN {{}} ELSE LoadFromFile(file)

\* What ensure_loaded may return; while nothing is cached it may also fail.
Loaded == IF loaded THEN {records} ELSE LoadFromFile(file)

Keep(R) == loaded' = TRUE /\ records' = R

KeyOf(R, e) == IF \E r \in R : r.end = e THEN (CHOOSE r \in R : r.end = e).key ELSE NoKey

\* lookup finds key k, or NoKey.
LookUp(e, k) ==
    /\ \E R \in Loaded : k = KeyOf(R, e) /\ Keep(R)
    /\ UNCHANGED <<file, saved>>

\* The file cannot be read, or a line of it: whatever was asked for fails.
LoadFails ==
    /\ ~loaded
    /\ UNCHANGED tvars

Without(R, e) == {r \in R : r.end # e}

Upsert(e, k) ==
    /\ \E R \in Loaded :
          LET new == Without(R, e) \cup {[end |-> e, key |-> k]}
          IN  file' = SerializeRecords(new) /\ Keep(new)
    /\ saved' = [saved EXCEPT ![e] = k]

\* Without a record nothing is written.
Remove(e) ==
    /\ \E R \in Loaded :
          /\ Keep(Without(R, e))
          /\ file' = IF Without(R, e) = R THEN file ELSE SerializeRecords(Without(R, e))
    /\ saved' = [saved EXCEPT ![e] = NoKey]

\* The temporary file is not written, or not renamed.
WriteFails(e, k) ==
    /\ \E R \in Loaded : Keep(R)
    /\ UNCHANGED <<file, saved>>

\* A removal whose record cannot be written out.
RemoveFails(e) ==
    /\ \E R \in Loaded : Without(R, e) # R /\ Keep(R)
    /\ UNCHANGED <<file, saved>>

\* The program ends, at any point, and is started again.
Restart ==
    /\ loaded' = FALSE /\ records' = {}
    /\ UNCHANGED <<file, saved>>

\* Somebody else spoils the file, or mends it.
Spoil ==
    /\ file' = file \cup {Garbage}
    /\ UNCHANGED <<loaded, records, saved>>

Mend ==
    /\ Spoilt
    /\ file' = file \ {Garbage}
    /\ UNCHANGED <<loaded, records, saved>>

Next ==
    \/ \E e \in Endpoints :
          \/ Remove(e) \/ RemoveFails(e)
          \/ \E k \in Keys \cup {NoKey} : LookUp(e, k)
          \/ \E k \in Keys : Upsert(e, k) \/ WriteFails(e, k)
    \/ Restart \/ Spoil \/ Mend

Spec == Init /\ [][Next]_tvars

-----------------------------------------------------------------------------
\* "The exact spelling of the configuration is kept" (the comment at the head
\* of the file): a store that nobody else has spoilt can be read by the next
\* start of the program, and then has what was saved.
SavedReadsBack ==
    ~Spoilt => \E R \in LoadFromFile(file) : \A e \in Endpoints : KeyOf(R, e) = saved[e]
=============================================================================
