----------------------------- MODULE WebTemplate -----------------------------
(***************************************************************************)
(* WebResponses.cpp's template processing: a response's source is read     *)
(* into whatever room the connection has, the placeholders in it are       *)
(* replaced by the program's values, and what does not fit waits in        *)
(* _cache for the next chunk.  _cache is read before the source is, and    *)
(* is only ever added to in front: the two are one sequence, rest.         *)
(***************************************************************************)
EXTENDS Integers, SequencesExt, FiniteSetsExt

CONSTANTS
    Pages,          \* sources: sequences of bytes
    Value,          \* what the program's callback returns for the names it knows
    Rooms,          \* sizes of a chunk
    NameMax         \* TEMPLATE_PARAM_NAME_LENGTH

VARIABLES
    page, rest,     \* the source, and what is still to be read of it
    phase,          \* "idle", "scan", "end"
    data, room,     \* the buffer's first len bytes; originalLen
    at,             \* pTemplateStart
    out,            \* what went to the connection
    clipped, split  \* a value that was cut short; a %% over two chunks

templateVars == <<page, rest, phase, data, room, at, out, clipped, split>>

First(s, n) == SubSeq(s, 1, IF n < Len(s) THEN n ELSE Len(s))
Past(s, n) == SubSeq(s, n + 1, Len(s))
ValueOf(name) == IF name \in DOMAIN Value THEN Value[name] ELSE <<>>
Percents(s, from) == {i \in from..Len(s) : s[i] = "%"}

-----------------------------------------------------------------------------
\* _ack() has room for n bytes.
Read(n) ==
    /\ phase = "idle" /\ phase' = "scan"
    /\ room' = n /\ data' = First(rest, n) /\ rest' = Past(rest, n) /\ at' = 1
    /\ UNCHANGED <<page, out, clipped, split>>

\* No placeholder is left; a chunk of nothing ends the response.
Deliver ==
    /\ phase = "scan" /\ Percents(data, at) = {}
    /\ phase' = IF data = <<>> THEN "end" ELSE "idle"
    /\ out' = out \o data /\ data' = <<>>
    /\ UNCHANGED <<page, rest, room, at, clipped, split>>

\* mutant: what the value pushes out of the buffer is not kept
ReplaceDrops(s, e, name, r) ==
    LET value == First(ValueOf(name), room - s + 1)
    IN  /\ data' = First(First(data, s - 1) \o value \o Past(data, e), room)
        /\ rest' = r /\ at' = s
        /\ UNCHANGED <<page, phase, room, out, clipped, split>>

\* The value takes the place of data[s..e]; r is unread.  What has to give way
\* goes back in front of r, and the rest of a value that reaches the buffer's end
\* before it; the buffer is filled up when there is room.
Replace(s, e, name, r) ==
    LET value == ValueOf(name)
        copied == IF Len(value) < room - s + 1 THEN Len(value) ELSE room - s + 1
        taken == s + copied - e - 1
        pushed == taken > 0 /\ room - taken < Len(data)
        len == IF pushed THEN room ELSE Len(data)
        after == SubSeq(data, e + 1, IF pushed THEN room - taken ELSE Len(data))
        back == IF pushed THEN Past(data, room - taken) \o r ELSE r
        buffer == First(data, s - 1) \o First(value, copied) \o after
        free == room - len - taken
    IN  /\ IF copied < Len(value)
           THEN /\ data' = First(buffer, len)
                /\ rest' = Past(value, copied) \o back
                /\ clipped' = (clipped \/ Len(buffer) > len)
           ELSE IF taken < 0
           THEN data' = buffer \o First(back, free) /\ rest' = Past(back, free)
                /\ UNCHANGED clipped
           ELSE data' = buffer /\ rest' = back /\ UNCHANGED clipped
        /\ at' = s
        /\ UNCHANGED <<page, phase, room, out, split>>

\* The closing placeholder is in the buffer: a name, or none for an escaped %.
Closed(s, e) ==
    IF e > s + 1
    THEN Replace(s, e, First(SubSeq(data, s + 1, e - 1), NameMax), rest)
    ELSE /\ data' = First(data, s) \o Past(data, e) \o First(rest, 1)
         /\ rest' = Past(rest, 1) /\ at' = s + 1
         /\ UNCHANGED <<page, phase, room, out, clipped, split>>

\* It may be in what was not read yet; if not the % is as it is.
Open(s) ==
    LET tail == Past(data, s)
        ahead == First(rest, NameMax + 1 - Len(tail))
        ends == IF Len(tail) < NameMax + 1 THEN Percents(ahead, 1) ELSE {}
        name == tail \o First(ahead, Min(ends) - 1)
    IN  IF ends = {}
        THEN at' = s + 1 /\ UNCHANGED <<page, rest, phase, data, room, out, clipped, split>>
        ELSE IF name # <<>> THEN Replace(s, Len(data), name, Past(rest, Min(ends)))
        ELSE rest' = Past(rest, 1) /\ split' = TRUE
             /\ UNCHANGED <<page, phase, data, room, at, out, clipped>>

Placeholder ==
    /\ phase = "scan" /\ Percents(data, at) # {}
    /\ LET s == Min(Percents(data, at))
           ends == Percents(data, s + 1)
       IN  IF ends # {} THEN Closed(s, Min(ends)) ELSE Open(s)

Init ==
    /\ page \in Pages /\ rest = page
    /\ phase = "idle" /\ data = <<>> /\ room = 0 /\ at = 1 /\ out = <<>>
    /\ clipped = FALSE /\ split = FALSE

Next == (\E n \in Rooms : Read(n)) \/ Placeholder \/ Deliver
TemplateFairness == WF_templateVars(Next)
Spec == Init /\ [][Next]_templateVars /\ TemplateFairness

-----------------------------------------------------------------------------
\* The buffer holds no more than its room, and is scanned inside it.
TypeOK ==
    /\ phase \in {"idle", "scan", "end"} /\ clipped \in BOOLEAN /\ split \in BOOLEAN
    /\ phase = "scan" => Len(data) <= room /\ at \in 1..(Len(data) + 1)

\* The page with its placeholders replaced, whatever it was read into.
Expanded(s) ==
    LET f[i \in 1..(Len(s) + 1)] ==
            LET ends == Percents(s, i + 1)
            IN  IF i = Len(s) + 1 THEN <<>>
                ELSE IF s[i] # "%" \/ ends = {} THEN <<s[i]>> \o f[i + 1]
                ELSE IF Min(ends) = i + 1 THEN <<"%">> \o f[i + 2]
                ELSE ValueOf(SubSeq(s, i + 1, Min(ends) - 1)) \o f[Min(ends) + 1]
    IN  f[1]

\* Whatever rooms the connection offers, what is sent is the page with each
\* placeholder replaced by its value (README, Template processing), in order and
\* without loss - but for a value clipped behind the page's last byte and an
\* escaped % that two chunks share.
ValuesReplace ==
    ~clipped /\ ~split => IF phase = "end" THEN out = Expanded(page)
                          ELSE IsPrefix(out, Expanded(page))

\* A response comes to its end, however small the chunks are.
PageEnds == <>(phase = "end")
=============================================================================
