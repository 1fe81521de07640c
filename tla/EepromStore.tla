----------------------------- MODULE EepromStore -----------------------------
(***************************************************************************)
(* EEPROM.cpp: an EEPROMClass keeps a copy of an NVS blob in memory;       *)
(* begin() cuts or extends the blob to the size it is given, commit()      *)
(* writes the copy back.  NVS keeps each set or erase whole over a restart *)
(* and may refuse any set.  Typed reads and writes are runs of bytes.      *)
(***************************************************************************)
EXTENDS Naturals, FiniteSets, Sequences

CONSTANTS
    Sizes,          \* sizes the program begins with
    Values,         \* bytes it writes, 0 among them
    MaxHandles      \* bound: NVS handles opened

FF == "FF"
Bytes == Values \cup {FF}
None == <<>>        \* no blob; blobs have at least one byte

VARIABLES
    nvs,            \* the blob under _name
    mem,            \* [data, size, dirty]; size is _size, data Null if NULL
    call,           \* begin(): [at, size, key]; key is key_data
    handles,        \* NVS handles not closed
    stored,         \* what the last successful commit() or resize left in NVS
    torn,           \* a restart or a refused set between erasing and setting
    pointed         \* the program writes through getDataPtr() after a commit()

eepromVars == <<nvs, mem, call, handles, stored, torn, pointed>>

Null == <<"none">>
Idle == [at |-> "idle", size |-> 0, key |-> None]
Boot == [data |-> Null, size |-> 0, dirty |-> FALSE]
Padded(s, n) == [i \in 1 .. n |-> IF i <= Len(s) THEN s[i] ELSE FF]
Goto(p) == call' = [call EXCEPT !.at = p]
Usable == call.at = "idle" /\ mem.data # Null /\ mem.size > 0

\* begin(): nvs_open(), the blob's size, and which way it has to change; with
\* too little memory, or no room for what is added, the handle stays open.
Begin(n) ==
    /\ call.at = "idle" /\ handles < MaxHandles
    /\ handles' = handles + 1
    /\ call' = [at |-> IF n < Len(nvs) THEN "cut" ELSE IF n > Len(nvs) THEN "erase"
                       ELSE "load", size |-> n, key |-> Padded(nvs, n)]
    /\ UNCHANGED <<nvs, mem, stored, torn, pointed>>
Fail ==
    /\ call.at \in {"cut", "erase"}
    /\ call' = Idle
    /\ UNCHANGED <<nvs, mem, handles, stored, torn, pointed>>

\* Nobody looks at the result of these sets.
Cut ==
    /\ call.at = "cut" /\ Goto("load")
    /\ \/ nvs' = call.key /\ stored' = call.key
       \/ UNCHANGED <<nvs, stored>>
    /\ UNCHANGED <<mem, handles, torn, pointed>>
Erase ==
    /\ call.at = "erase" /\ Goto("set")
    /\ nvs' = None
    /\ UNCHANGED <<mem, handles, stored, torn, pointed>>
Set ==
    /\ call.at = "set" /\ Goto("load")
    /\ \/ nvs' = call.key /\ stored' = call.key /\ UNCHANGED torn
       \/ torn' = TRUE /\ UNCHANGED <<nvs, stored>>
    /\ UNCHANGED <<mem, handles, pointed>>

\* The new copy: of a blob that is not there, or too long, whatever malloc()
\* returned; _dirty is left as it is.
Load ==
    /\ call.at = "load" /\ call' = Idle
    /\ \/ mem' = [mem EXCEPT !.data = Null]         \* malloc() failed
       \/ \E d \in IF Len(nvs) = call.size THEN {nvs} ELSE [1 .. call.size -> Bytes] :
              mem' = [mem EXCEPT !.data = d, !.size = call.size]
    /\ pointed' = FALSE
    /\ UNCHANGED <<nvs, handles, stored, torn>>

\* mutant: a write of many bytes is not marked
WriteUnmarked(a, s) ==
    /\ Usable /\ a + Len(s) <= mem.size
    /\ LET d == [i \in DOMAIN mem.data |-> IF i \in a + 1 .. a + Len(s)
                                            THEN s[i - a] ELSE mem.data[i]]
       IN  mem' = [mem EXCEPT !.data = d, !.dirty = @ \/ (Len(s) = 1 /\ d # mem.data)]
    /\ UNCHANGED <<nvs, call, handles, stored, torn, pointed>>

\* put(), writeAll(), writeBytes(), and write(), which notices an equal byte.
Write(a, s) ==
    /\ Usable /\ a + Len(s) <= mem.size
    /\ LET d == [i \in DOMAIN mem.data |-> IF i \in a + 1 .. a + Len(s)
                                            THEN s[i - a] ELSE mem.data[i]]
       IN  mem' = [mem EXCEPT !.data = d, !.dirty = @ \/ Len(s) > 1 \/ d # mem.data]
    /\ UNCHANGED <<nvs, call, handles, stored, torn, pointed>>

\* getDataPtr() sets _dirty once; the program may keep the pointer.
GetDataPtr ==
    /\ Usable /\ mem' = [mem EXCEPT !.dirty = TRUE]
    /\ UNCHANGED <<nvs, call, handles, stored, torn, pointed>>
WriteThrough(a, v) ==
    /\ Usable /\ a < mem.size
    /\ mem' = [mem EXCEPT !.data[a + 1] = v]
    /\ pointed' = (pointed \/ ~mem.dirty)
    /\ UNCHANGED <<nvs, call, handles, stored, torn>>

\* commit(): TRUE at once if nothing is dirty.
Committed(ok) ==
    IF mem.data = Null \/ mem.size = 0 \/ ~mem.dirty \/ ~ok THEN UNCHANGED <<nvs, stored>>
    ELSE nvs' = mem.data /\ stored' = mem.data
Commit(ok) ==
    /\ call.at = "idle" /\ Committed(ok)
    /\ mem' = [mem EXCEPT !.dirty = @ /\ ~(ok /\ mem.data # Null /\ mem.size > 0)]
    /\ pointed' = (pointed /\ ~(ok /\ mem.dirty))
    /\ UNCHANGED <<call, handles, torn>>

\* end(): commits, whatever comes of it, and closes; without a size it returns.
End(ok) ==
    /\ call.at = "idle" /\ mem.size > 0
    /\ Committed(ok)
    /\ mem' = [mem EXCEPT !.data = Null, !.size = 0,
                          !.dirty = @ /\ ~(ok /\ mem.data # Null)]
    /\ handles' = handles - 1 /\ pointed' = FALSE
    /\ UNCHANGED <<call, torn>>

Restart ==
    /\ mem' = Boot /\ call' = Idle /\ handles' = 0 /\ pointed' = FALSE
    /\ torn' = (torn \/ call.at = "set")
    /\ UNCHANGED <<nvs, stored>>

Init ==
    /\ nvs = None /\ mem = Boot /\ call = Idle /\ handles = 0
    /\ stored = None /\ torn = FALSE /\ pointed = FALSE

Next ==
    \/ \E n \in Sizes : Begin(n)
    \/ Fail \/ Cut \/ Erase \/ Set \/ Load \/ GetDataPtr \/ Restart
    \/ \E a \in 0 .. mem.size, n \in 1 .. 2 : \E s \in [1 .. n -> Values] : Write(a, s)
    \/ \E a \in 0 .. mem.size, v \in Values : WriteThrough(a, v)
    \/ \E ok \in BOOLEAN : Commit(ok) \/ End(ok)
Spec == Init /\ [][Next]_eepromVars

-----------------------------------------------------------------------------
\* Every variable keeps its kind of value.
TypeOK ==
    /\ nvs \in Seq(Bytes) /\ mem.dirty \in BOOLEAN
    /\ mem.data = Null \/ mem.data \in [1 .. mem.size -> Bytes]
    /\ call.at \in {"idle", "cut", "erase", "set", "load"}
    /\ handles \in 0 .. MaxHandles

\* NVS holds what the last successful commit() or resize stored, over every
\* restart and refused set, except between the erasing and the setting of an
\* extension; what is read after a begin() of a larger size is the old contents
\* and then FF.
StoredIsKept ==
    ~torn =>
        /\ call.at # "set" => nvs = stored
        /\ call.at = "set" => SubSeq(call.key, 1, Len(stored)) = stored

\* A copy that is not marked dirty is what NVS holds, so nothing the program
\* wrote is forgotten, unless it wrote through an old getDataPtr(), or the blob
\* was cut or extended without success.
CleanMeansStored ==
    Usable /\ ~mem.dirty /\ ~pointed /\ Len(nvs) = mem.size => mem.data = nvs
=============================================================================
