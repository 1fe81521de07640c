--------------------------- MODULE Libraries_proofs ---------------------------
(***************************************************************************)
(* What the libraries promise, for all networks, names, hosts, responses,  *)
(* sizes, files and handlers.  Each part has an inductive invariant of its *)
(* own, kept by its actions (lemma <Part>Next) and by the steps of all     *)
(* others, which leave its variables alone; LibraryInv is all of them, and *)
(* the six theorems at the end, of four invariants and of two properties   *)
(* of its steps, follow from it.                                           *)
(***************************************************************************)
EXTENDS Libraries, DataInduction, FiniteSetTheorems, TLAPS

-----------------------------------------------------------------------------
(* Two sequences joined. *)

LEMMA SeqJoins ==
  ASSUME NEW S, NEW s \in Seq(S), NEW t \in Seq(S)
  PROVE  /\ s \o t \in Seq(S) /\ Len(s \o t) = Len(s) + Len(t)
         /\ \A i \in 1 .. Len(s) + Len(t) :
               (s \o t)[i] = IF i <= Len(s) THEN s[i] ELSE t[i - Len(s)]
  OBVIOUS

LEMMA EmptyJoins ==
  ASSUME NEW S, NEW s \in Seq(S) PROVE s \o <<>> = s /\ <<>> \o s = s
  <1>1. /\ s \o <<>> \in Seq(S) /\ Len(s \o <<>>) = Len(s)
        /\ \A i \in 1 .. Len(s) : (s \o <<>>)[i] = s[i]
    OBVIOUS
  <1>2. /\ <<>> \o s \in Seq(S) /\ Len(<<>> \o s) = Len(s)
        /\ \A i \in 1 .. Len(s) : (<<>> \o s)[i] = s[i]
    OBVIOUS
  <1> QED BY <1>1, <1>2

-----------------------------------------------------------------------------
(* HttpsOTAUpdate: a bit of the event group is set by the task that ended so, and tasks *)
(* that have ended stay so.                                                             *)

\* A bit says that a task ended so, and the program was told what the bits say.
OtaPoints == {"start", "announce", "fetch", "success", "fail", "installed", "failed"}
OtaEnded(end) == \E i \in DOMAIN tasks : tasks[i] = end
OtaInv ==
    /\ tasks \in Seq(OtaPoints)
    /\ otaBits = {"none"} \/ "none" \notin otaBits
    /\ "success" \in otaBits => OtaEnded("installed")
    /\ "fail" \in otaBits => OtaEnded("failed")
    /\ Ota!StatusIsTrue

LEMMA OtaInit == Ota!Init => OtaInv
  BY DEF Ota!Init, Ota!NoGroup, OtaInv, OtaEnded, Ota!StatusIsTrue

LEMMA OtaKeeps == ASSUME OtaInv, NEW end \in {"installed", "failed"}, OtaEnded(end),
                         Ota!Begin \/ Ota!TaskStep
                  PROVE  OtaEnded(end)'
  <1>1. PICK i \in DOMAIN tasks : tasks[i] = end BY DEF OtaEnded
  <1>2. CASE Ota!Begin
    <2>1. tasks' = tasks \/ tasks' = Append(tasks, "start") BY <1>2 DEF Ota!Begin
    <2>2. i \in DOMAIN tasks' /\ tasks'[i] = tasks[i] BY <2>1 DEF OtaInv
    <2> QED BY <1>1, <2>2 DEF OtaEnded
  <1>3. CASE Ota!TaskStep
    <2>1. PICK k \in DOMAIN tasks : Ota!Step(k) BY <1>3 DEF Ota!TaskStep
    <2>2. k # i BY <1>1, <2>1 DEF Ota!Step
    <2>3. i \in DOMAIN tasks' /\ tasks'[i] = tasks[i] BY <2>1, <2>2 DEF Ota!Step
    <2> QED BY <1>1, <2>3 DEF OtaEnded
  <1> QED BY <1>2, <1>3

LEMMA OtaNext == ASSUME OtaInv, Ota!Next PROVE OtaInv'
  <1>1. CASE Ota!Begin
    <2>1. tasks' \in Seq(OtaPoints) BY <1>1 DEF OtaInv, Ota!Begin, OtaPoints
    <2>2. OtaEnded("installed") => OtaEnded("installed")' BY <1>1, OtaKeeps
    <2>3. OtaEnded("failed") => OtaEnded("failed")' BY <1>1, OtaKeeps
    <2>4. otaBits' = otaBits \/ otaBits' = {"idle"} \/ otaBits' = {"none"}
      BY <1>1 DEF Ota!Begin, Ota!NoGroup
    <2> QED BY <1>1, <2>1, <2>2, <2>3, <2>4 DEF OtaInv, Ota!Begin, Ota!StatusIsTrue, OtaEnded
  <1>2. CASE Ota!TaskStep
    <2>1. PICK k \in DOMAIN tasks : Ota!Step(k) BY <1>2 DEF Ota!TaskStep
    <2>2. tasks' \in Seq(OtaPoints) BY <2>1 DEF OtaInv, Ota!Step, OtaPoints
    <2>3. OtaEnded("installed") => OtaEnded("installed")' BY <1>2, OtaKeeps
    <2>4. OtaEnded("failed") => OtaEnded("failed")' BY <1>2, OtaKeeps
    <2>5. "success" \in otaBits' => "success" \in otaBits \/ OtaEnded("installed")'
      <3> SUFFICES ASSUME "success" \in otaBits', "success" \notin otaBits
                   PROVE  tasks'[k] = "installed" /\ k \in DOMAIN tasks'
        BY DEF OtaEnded
      <3> QED BY <2>1 DEF Ota!Step, Ota!Set, Ota!Clear, OtaInv
    <2>6. "fail" \in otaBits' => "fail" \in otaBits \/ OtaEnded("failed")'
      <3> SUFFICES ASSUME "fail" \in otaBits', "fail" \notin otaBits
                   PROVE  tasks'[k] = "failed" /\ k \in DOMAIN tasks'
        BY DEF OtaEnded
      <3> QED BY <2>1 DEF Ota!Step, Ota!Set, Ota!Clear, OtaInv
    <2>7. otaBits' = {"none"} \/ "none" \notin otaBits'
      BY <2>1 DEF Ota!Step, Ota!Set, Ota!Clear, Ota!NoGroup, OtaInv
    <2>8. told' = told BY <2>1 DEF Ota!Step
    <2> QED BY <2>2, <2>3, <2>4, <2>5, <2>6, <2>7, <2>8 DEF OtaInv, Ota!StatusIsTrue, OtaEnded
  <1>3. CASE Ota!Status
    <2>1. told' \in {"success", "fail"} => told' \in otaBits
      <3>1. CASE otaBits = {}
        <4>1. Ota!Cardinality(otaBits) # 1 BY <3>1, FS_EmptySet DEF Ota!Cardinality, Cardinality
        <4> QED BY <4>1, <1>3 DEF Ota!Status
      <3>2. CASE otaBits # {}
        <4>1. (CHOOSE b \in otaBits : TRUE) \in otaBits BY <3>2
        <4> QED BY <4>1, <1>3 DEF Ota!Status
      <3> QED BY <3>1, <3>2
    <2> QED BY <1>3, <2>1 DEF OtaInv, Ota!Status, Ota!StatusIsTrue, OtaEnded
  <1> QED BY <1>1, <1>2, <1>3 DEF Ota!Next

-----------------------------------------------------------------------------
(* HTTPUpdate: what a call knows of the image when it comes to each of its places. *)

\* Nothing is installed or returned while a call goes on; the image it writes is not
\* empty, and when it is to be ended it is whole.
UpdateShape ==
    /\ updating = [pc |-> updating.pc, spiffs |-> updating.spiffs, len |-> updating.len]
    /\ updating.len \in Int
    /\ update = [running |-> update.running, got |-> update.got]
UpdateBits == http \in BOOLEAN
UpdateCall ==
    /\ updating.pc # "idle" => updateResult = "none" /\ installed = 0
    /\ updating.pc \in {"room", "header", "begin", "md5", "stream", "write", "end"} => updating.len > 0
    /\ updating.pc = "end" => update.got = updating.len
    /\ updating.pc \notin {"md5", "stream", "write", "end"} => (update.running => unended # {})
UpdateInv == UpdateShape /\ UpdateBits /\ UpdateCall /\ Update!OkMeansInstalled

LEMMA UpdateInit == Update!Init => UpdateInv
  <1> SUFFICES ASSUME Update!Init PROVE UpdateInv OBVIOUS
  <1> USE DEF Update!Init, Update!Idle, Update!NotRunning
  <1>1. UpdateShape BY DEF UpdateShape
  <1>2. UpdateBits BY DEF UpdateBits
  <1>3. UpdateCall BY DEF UpdateCall
  <1>4. Update!OkMeansInstalled BY DEF Update!OkMeansInstalled
  <1> QED BY <1>1, <1>2, <1>3, <1>4 DEF UpdateInv

LEMMA UpdateNext == ASSUME UpdateInv, Update!Next PROVE UpdateInv'
  <1> USE DEF UpdateInv, Update!At, Update!Goto, Update!Idle, Update!NotRunning,
              Update!ReturnOpen, Update!ReturnEnded, Update!Stream
  <1>1. CASE \E spiffs \in BOOLEAN : Update!Call(spiffs)
    <2>0. PICK spiffs \in BOOLEAN : Update!Call(spiffs) BY <1>1
    <2>1. UpdateShape' BY <2>0 DEF Update!Call, UpdateShape
    <2>2. UpdateBits' BY <2>0 DEF Update!Call, UpdateBits
    <2>3. UpdateCall' BY <2>0 DEF Update!Call, UpdateShape, UpdateCall
    <2>4. Update!OkMeansInstalled' BY <2>0 DEF Update!Call, UpdateShape, UpdateCall, Update!OkMeansInstalled
    <2> QED BY <2>1, <2>2, <2>3, <2>4
  <1>2. CASE Update!Get
    <2>1. updating.pc = "get" /\ UNCHANGED <<update, installed, unended, crashed>>
      BY <1>2 DEF Update!Get
    <2>2. UpdateBits' BY <1>2 DEF Update!Get, UpdateBits
    <2>3. CASE \E opened \in BOOLEAN, n \in -1..(Room + 1) :
                  n > 0 /\ updating' = [updating EXCEPT !.pc = "room", !.len = n]
                        /\ UNCHANGED <<updateResult, lastError>>
      <3>1. PICK n \in -1..(Room + 1) :
                n > 0 /\ updating' = [updating EXCEPT !.pc = "room", !.len = n]
                      /\ updateResult' = updateResult
        BY <2>3
      <3>2. n \in Int BY LibrarySizes
      <3>3. updating' = [pc |-> "room", spiffs |-> updating.spiffs, len |-> n]
        BY <3>1 DEF UpdateShape
      <3> HIDE DEF Update!At
      <3>4. UpdateShape' BY <3>2, <3>3, <2>1 DEF UpdateShape
      <3> QED BY <3>1, <3>2, <3>3, <3>4, <2>1, <2>2 DEF UpdateCall, Update!OkMeansInstalled
    <2>4. CASE updating' = Update!Idle /\ updateResult' \in {"failed", "no updates"}
      <3>0. updating' = [pc |-> "idle", spiffs |-> FALSE, len |-> 0] /\ update' = update
        BY <2>4, <2>1
      <3>1. UpdateShape' BY <3>0 DEF UpdateShape
      <3> QED BY <3>1, <2>1, <2>2, <2>4 DEF UpdateCall, Update!OkMeansInstalled
    <2> QED BY <1>2, <2>3, <2>4 DEF Update!Get
  <1>3. CASE Update!FindRoom
    <2>1. UpdateShape' BY <1>3 DEF Update!FindRoom, UpdateShape
    <2>2. UpdateBits' BY <1>3 DEF Update!FindRoom, UpdateBits
    <2>3. UpdateCall' BY <1>3 DEF Update!FindRoom, UpdateShape, UpdateCall
    <2>4. Update!OkMeansInstalled' BY <1>3 DEF Update!FindRoom, UpdateShape, UpdateCall, Update!OkMeansInstalled
    <2> QED BY <2>1, <2>2, <2>3, <2>4
  <1>4. CASE Update!CheckHeader
    <2>1. UpdateShape' BY <1>4 DEF Update!CheckHeader, UpdateShape
    <2>2. UpdateBits' BY <1>4 DEF Update!CheckHeader, UpdateBits
    <2>3. UpdateCall' BY <1>4 DEF Update!CheckHeader, UpdateShape, UpdateCall
    <2>4. Update!OkMeansInstalled' BY <1>4 DEF Update!CheckHeader, UpdateShape, UpdateCall, Update!OkMeansInstalled
    <2> QED BY <2>1, <2>2, <2>3, <2>4
  <1>5. CASE Update!Begin
    <2>1. UpdateShape' BY <1>5 DEF Update!Begin, UpdateShape
    <2>2. UpdateBits' BY <1>5 DEF Update!Begin, UpdateBits
    <2>3. UpdateCall' BY <1>5 DEF Update!Begin, UpdateShape, UpdateCall
    <2>4. Update!OkMeansInstalled' BY <1>5 DEF Update!Begin, UpdateShape, UpdateCall, Update!OkMeansInstalled
    <2> QED BY <2>1, <2>2, <2>3, <2>4
  <1>6. CASE Update!SetMd5
    <2>1. UpdateShape' BY <1>6 DEF Update!SetMd5, UpdateShape
    <2>2. UpdateBits' BY <1>6 DEF Update!SetMd5, UpdateBits
    <2>3. UpdateCall' BY <1>6 DEF Update!SetMd5, UpdateShape, UpdateCall
    <2>4. Update!OkMeansInstalled' BY <1>6 DEF Update!SetMd5, UpdateShape, UpdateCall, Update!OkMeansInstalled
    <2> QED BY <2>1, <2>2, <2>3, <2>4
  <1>7. CASE Update!WriteStream
    <2>0. /\ updating.pc = "write" /\ UNCHANGED installed
          /\ \/ /\ update.got = updating.len /\ updating' = [updating EXCEPT !.pc = "end"]
                /\ UNCHANGED <<update, updateResult, unended>>
             \/ /\ update' = [update EXCEPT !.got = @ + 1]
                /\ UNCHANGED <<updating, updateResult, unended>>
             \/ /\ updating' = Update!Idle /\ updateResult' = "failed"
                /\ update' = Update!NotRunning
             \/ /\ updating' = Update!Idle /\ updateResult' = "failed"
                /\ update' = update /\ unended' # {}
      BY <1>7 DEF Update!WriteStream, Update!WriteSector, Update!NoMemory
    <2>1. UpdateShape' BY <2>0 DEF UpdateShape
    <2>2. UpdateBits' BY <1>7 DEF Update!WriteStream, Update!WriteSector, Update!NoMemory, UpdateBits
    <2>3. UpdateCall' BY <2>0 DEF UpdateShape, UpdateCall
    <2>4. Update!OkMeansInstalled' BY <2>0 DEF UpdateShape, UpdateCall, Update!OkMeansInstalled
    <2> QED BY <2>1, <2>2, <2>3, <2>4
  <1>8. CASE Update!End
    <2>1. UpdateShape' BY <1>8 DEF Update!End, UpdateShape
    <2>2. UpdateBits' BY <1>8 DEF Update!End, UpdateBits
    <2>3. UpdateCall' BY <1>8 DEF Update!End, UpdateShape, UpdateCall
    <2>4. Update!OkMeansInstalled' BY <1>8 DEF Update!End, UpdateShape, UpdateCall, Update!OkMeansInstalled
    <2> QED BY <2>1, <2>2, <2>3, <2>4
  <1>9. CASE Update!Restart
    <2>1. UpdateShape' BY <1>9 DEF Update!Restart, UpdateShape
    <2>2. UpdateBits' BY <1>9 DEF Update!Restart, UpdateBits
    <2>3. UpdateCall' BY <1>9 DEF Update!Restart, UpdateShape, UpdateCall
    <2>4. Update!OkMeansInstalled' BY <1>9 DEF Update!Restart, UpdateShape, UpdateCall, Update!OkMeansInstalled
    <2> QED BY <2>1, <2>2, <2>3, <2>4
  <1>10. CASE Update!VerifyHeader
    <2>1. UpdateShape' BY <1>10 DEF Update!VerifyHeader, UpdateShape
    <2>2. UpdateBits' BY <1>10 DEF Update!VerifyHeader, UpdateBits
    <2>3. UpdateCall' BY <1>10 DEF Update!VerifyHeader, UpdateShape, UpdateCall
    <2>4. Update!OkMeansInstalled' BY <1>10 DEF Update!VerifyHeader, UpdateShape, UpdateCall, Update!OkMeansInstalled
    <2> QED BY <2>1, <2>2, <2>3, <2>4
  <1> QED BY <1>1, <1>2, <1>3, <1>4, <1>5, <1>6, <1>7, <1>8, <1>9, <1>10 DEF Update!Next, Update!Steps

-----------------------------------------------------------------------------
(* The web server's handlers: what has been answered while a body still comes. *)

Refusal == [code |-> 401]
\* While the body of a POST comes: who may ask has no answer yet, and who may not has
\* had refusals only, and nothing of his upload has reached the program.
ServeAsked ==
    asking.handler # "none" =>
        /\ asking = [handler |-> asking.handler, auth |-> asking.auth,
                     pieces |-> asking.pieces, left |-> asking.left]
        /\ Serve!Allowed(asking.handler, asking.auth) => answers = <<>>
        /\ ~Serve!Allowed(asking.handler, asking.auth) =>
               asking.auth = FALSE /\ gets = 0 /\ answers \in Seq({Refusal})
ServeInv == ServeAsked /\ Serve!AnsweredOnce

LEMMA ServeInit == Serve!Init => ServeInv
  BY DEF Serve!Init, Serve!NoRequest, Serve!None, ServeInv, ServeAsked, Serve!AnsweredOnce

LEMMA ServeChanges == ASSUME ServeInv, UNCHANGED <<asking, answers, gets>> PROVE ServeInv'
  BY DEF ServeInv, ServeAsked, Serve!Allowed, Serve!AnsweredOnce, Serve!None, Serve!CatchAll

LEMMA ServeBody == ASSUME ServeInv, Serve!Body PROVE ServeInv'
  <1> DEFINE h == asking.handler
             last == asking.left = 1
             refused == IF Serve!Allowed(h, asking.auth) THEN <<>> ELSE <<Refusal>>
             final == IF last THEN <<Serve!Answer(h, asking.auth, <<>>, Serve!NoCopy)>> ELSE <<>>
  <1>1. /\ h # "none"
        /\ answers' = answers \o refused \o final
        /\ gets' = IF h # Serve!CatchAll /\ refused = <<>> THEN gets + 1 ELSE gets
        /\ asking' = IF last THEN [asking EXCEPT !.handler = "none", !.left = 0]
                     ELSE [asking EXCEPT !.left = @ - 1]
    BY DEF Serve!Body, Serve!None, Refusal
  <1>2. asking = [handler |-> h, auth |-> asking.auth, pieces |-> asking.pieces, left |-> asking.left]
    BY <1>1 DEF ServeInv, ServeAsked
  <1>3. /\ last => asking'.handler = "none" /\ asking'.auth = asking.auth
        /\ ~last => asking' = [handler |-> h, auth |-> asking.auth, pieces |-> asking.pieces,
                               left |-> asking.left - 1]
    BY <1>1, <1>2
  <1>4. CASE Serve!Allowed(h, asking.auth)
    <2>1. answers = <<>> /\ refused = <<>> BY <1>1, <1>4 DEF ServeInv, ServeAsked
    <2>2. answers' = final BY <1>1, <2>1
    <2>3. CASE last
      <3>1. Len(answers') = 1 BY <2>2, <2>3
      <3> QED BY <1>3, <2>3, <3>1 DEF ServeInv, ServeAsked, Serve!AnsweredOnce
    <2>4. CASE ~last
      <3>1. answers' = <<>> BY <2>2, <2>4
      <3>2. Serve!Allowed(asking.handler, asking.auth)'
        BY <1>3, <1>4, <2>4 DEF Serve!Allowed, Serve!CatchAll
      <3> QED BY <1>3, <2>4, <3>1, <3>2 DEF ServeInv, ServeAsked, Serve!AnsweredOnce
    <2> QED BY <2>3, <2>4
  <1>5. CASE ~Serve!Allowed(h, asking.auth)
    <2>1. asking.auth = FALSE /\ gets = 0 /\ answers \in Seq({Refusal})
      BY <1>1, <1>5 DEF ServeInv, ServeAsked
    <2>2. Serve!Answer(h, asking.auth, <<>>, Serve!NoCopy) = Refusal
      BY <1>5 DEF Serve!Answer, Serve!Allowed, Refusal
    <2>3. refused = <<Refusal>> /\ final \in Seq({Refusal})
      <3>1. refused = <<Refusal>> BY <1>5
      <3>2. final = IF last THEN <<Refusal>> ELSE <<>> BY <2>2
      <3>3. <<>> \in Seq({Refusal}) /\ <<Refusal>> \in Seq({Refusal}) OBVIOUS
      <3> HIDE DEF refused, final, last
      <3> QED BY <3>1, <3>2, <3>3
    <2>4. answers' \in Seq({Refusal})
      <3> HIDE DEF refused, final
      <3>1. refused \in Seq({Refusal}) BY <2>3
      <3>2. answers \o refused \in Seq({Refusal}) BY <2>1, <3>1, SeqJoins
      <3>3. (answers \o refused) \o final \in Seq({Refusal}) BY <2>3, <3>2, SeqJoins
      <3> QED BY <1>1, <3>3
    <2>5. gets' = 0
      <3>1. refused # <<>> BY <2>3
      <3> QED BY <1>1, <2>1, <3>1
    <2>6. \A i \in DOMAIN answers' : answers'[i].code = 401
      <3>1. \A i \in DOMAIN answers' : answers'[i] = Refusal BY <2>4
      <3> QED BY <3>1 DEF Refusal
    <2>7. asking'.auth = FALSE BY <1>3, <2>1
    <2>8. ServeAsked'
      <3>1. CASE last BY <1>3, <3>1 DEF ServeAsked
      <3>2. CASE ~last
        <4>1. ~Serve!Allowed(asking.handler, asking.auth)'
          BY <1>3, <1>5, <3>2 DEF Serve!Allowed, Serve!CatchAll
        <4> QED BY <1>3, <3>2, <4>1, <2>4, <2>5, <2>7 DEF ServeAsked
      <3> QED BY <3>1, <3>2
    <2> QED BY <2>5, <2>6, <2>7, <2>8 DEF ServeInv, Serve!AnsweredOnce
  <1> QED BY <1>4, <1>5

LEMMA ServeNext == ASSUME ServeInv, Serve!Next PROVE ServeInv'
  <1>1. CASE \E u \in Urls, a \in BOOLEAN : Serve!Get(u, a)
    <2>1. PICK u \in Urls, a \in BOOLEAN : Serve!Get(u, a) BY <1>1
    <2>2. asking'.handler = "none" BY <2>1 DEF Serve!Get, Serve!None
    <2>3. Len(answers') = 1 BY <2>1 DEF Serve!Get
    <2> QED BY <2>2, <2>3 DEF ServeInv, ServeAsked, Serve!AnsweredOnce
  <1>2. CASE \E u \in Urls, a \in BOOLEAN, n \in Pieces : Serve!Post(u, a, n)
    <2>1. PICK u \in Urls, a \in BOOLEAN, n \in Pieces : Serve!Post(u, a, n) BY <1>2
    <2> DEFINE h == Serve!Attached(Serve!Rewritten(u), "POST")
    <2>2. asking' = [handler |-> h, auth |-> a, pieces |-> n, left |-> n]
          /\ answers' = <<>> /\ gets' = 0
      BY <2>1 DEF Serve!Post
    <2> HIDE DEF h
    <2>3. asking'.auth = a /\ asking'.handler = h BY <2>2
    <2>4. Serve!Allowed(asking.handler, asking.auth)' \/ asking'.auth = FALSE
      BY <2>3 DEF Serve!Allowed
    <2> QED BY <2>2, <2>4 DEF ServeInv, ServeAsked, Serve!AnsweredOnce
  <1>3. CASE Serve!Body BY <1>3, ServeBody
  <1>4. CASE Serve!Stray
    BY <1>4 DEF Serve!Stray, Serve!NoRequest, Serve!None, ServeInv, ServeAsked, Serve!AnsweredOnce
  <1>5. CASE UNCHANGED <<asking, answers, gets>> BY <1>5, ServeChanges
  <1> QED
    BY <1>1, <1>2, <1>3, <1>4, <1>5
    DEF Serve!Next, Serve!Change, Serve!AddHandler, Serve!RemoveHandler, Serve!AddRewrite,
        Serve!RemoveRewrite, Serve!Reset, Serve!WriteFile

-----------------------------------------------------------------------------
(* And what the browser keeps, whoever had answered it. *)

\* The handlers a program begins with, in some order.
LEMMA ListedOnce ==
  ASSUME NEW S, IsFiniteSet(S) PROVE Serve!SetToSeq(S) \in Seq(S)
  <1>1. Serve!Cardinality(S) = Cardinality(S) BY DEF Serve!Cardinality, Cardinality
  <1>2. Cardinality(S) \in Nat /\ ExistsBijection(1 .. Cardinality(S), S) BY FS_CardinalityType
  <1>3. PICK f \in [1 .. Cardinality(S) -> S] : \A a, b \in DOMAIN f : f[a] = f[b] => a = b
    BY <1>2 DEF ExistsBijection, Bijection, Injection, IsInjective
  <1>4. Serve!SetToSeq(S) \in [1 .. Cardinality(S) -> S]
    BY <1>1, <1>3 DEF Serve!SetToSeq, Serve!IsInjective
  <1> QED BY <1>2, <1>4

\* A browser's tag is the size of what it has; a body is for no static handler.
TagIsSize(c) == c.etag # 0 => c.content \in Contents /\ c.etag = ContentSize[c.content]
Takes(h) == h = Serve!CatchAll \/ (h \in Serve!Handlers /\ HandlerConfig[h].kind = "callback")
ServeTags ==
    /\ handlers \in Seq(Serve!Handlers)
    /\ served \in [Paths -> {Serve!None} \cup Contents]
    /\ copy = [u \in Urls |-> copy[u]] /\ \A u \in Urls : TagIsSize(copy[u])
    /\ asking.handler # "none" => Takes(asking.handler)

LEMMA ServeTagsInit == Serve!Init => ServeTags
  <1> SUFFICES ASSUME Serve!Init PROVE ServeTags OBVIOUS
  <1>1. ASSUME NEW h PROVE Serve!SetToSeq(Serve!Handlers \ {h}) \in Seq(Serve!Handlers)
    <2> DEFINE S == Serve!Handlers \ {h}
    <2>1. IsFiniteSet(S) BY LibraryHandlers, FS_Subset DEF Serve!Handlers
    <2>2. Serve!SetToSeq(S) \in Seq(S) BY <2>1, ListedOnce
    <2>3. S \subseteq Serve!Handlers OBVIOUS
    <2> HIDE DEF S
    <2>4. Serve!SetToSeq(S) \in Seq(Serve!Handlers)
      <3> DEFINE q == Serve!SetToSeq(S)
      <3>1. q \in Seq(S) BY <2>2
      <3> HIDE DEF q
      <3>2. q \in Seq(Serve!Handlers) BY <3>1, <2>3
      <3> QED BY <3>2 DEF q
    <2> QED BY <2>4 DEF S
  <1>2. handlers \in Seq(Serve!Handlers)
    <2>1. handlers = <<>> \/ \E h : handlers = Serve!SetToSeq(Serve!Handlers \ {h}) BY DEF Serve!Init
    <2>2. <<>> \in Seq(Serve!Handlers) OBVIOUS
    <2> HIDE DEF Serve!Handlers
    <2> QED BY <1>1, <2>1, <2>2
  <1>3. TagIsSize(Serve!NoCopy) BY DEF TagIsSize, Serve!NoCopy
  <1>4. copy = [u \in Urls |-> Serve!NoCopy] /\ asking = Serve!NoRequest
        /\ served \in [Paths -> {Serve!None} \cup Contents]
    BY DEF Serve!Init
  <1>5. asking.handler = "none" BY <1>4 DEF Serve!NoRequest, Serve!None
  <1> QED BY <1>2, <1>3, <1>4, <1>5 DEF ServeTags

\* A file that was found is one that is there.
LEMMA FoundIs ==
  ASSUME NEW h, NEW n
  PROVE  /\ \A p \in Serve!Found(h, n) : p \in Paths /\ served[p] # Serve!None
         /\ Serve!Found(h, n) # {} <=>
               \E p \in {n, Append(n, Serve!Gz)} : p \in Paths /\ served[p] # Serve!None
  <1> DEFINE have == {p \in {n, Append(n, Serve!Gz)} : p \in Paths /\ served[p] # Serve!None}
             first == IF gzipFirst[h] THEN Append(n, Serve!Gz) ELSE n
  <1>1. Serve!Found(h, n) = IF first \in have THEN {first} ELSE have BY DEF Serve!Found
  <1>2. have # {} <=> \E p \in {n, Append(n, Serve!Gz)} : p \in Paths /\ served[p] # Serve!None
    OBVIOUS
  <1>3. \A p \in have : p \in Paths /\ served[p] # Serve!None OBVIOUS
  <1> HIDE DEF have, first
  <1> QED BY <1>1, <1>2, <1>3

LEMMA GotIs ==
  ASSUME NEW h, NEW u
  PROVE  \A p \in Serve!GetFile(h, u) : p \in Paths /\ served[p] # Serve!None
  BY FoundIs DEF Serve!GetFile

\* What a url reaches in a handler's directory, the handler can handle.
LEMMA ReachedIs ==
  ASSUME NEW h, NEW u, Serve!Reaches(h, u) PROVE Serve!CanHandle(h, u, "GET")
  <1> DEFINE c == HandlerConfig[h]
             rest == SubSeq(u, Len(Serve!NoSlash(c.uri)) + 1, Len(u))
             path == Serve!NoSlash(c.path) \o rest
             skip == (c.isDir /\ rest = <<>>) \/ (rest # <<>> /\ Serve!Last(rest) = "/")
             plain == IF skip THEN {} ELSE Serve!Found(h, path)
             inner == Serve!WithSlash(path) \o c.file
             There(n) == \E p \in {n, Append(n, Serve!Gz)} : p \in Paths /\ served[p] # Serve!None
             names == (IF skip THEN {} ELSE {path}) \cup (IF c.file = <<>> THEN {} ELSE {inner})
  <1>1. /\ c.kind = "static" /\ Serve!StartsWith(u, Serve!NoSlash(c.uri))
        /\ \E n \in names : There(n)
    BY DEF Serve!Reaches
  <1>2. Serve!GetFile(h, u) = IF plain # {} THEN plain
                              ELSE IF c.file = <<>> THEN {} ELSE Serve!Found(h, inner)
    BY DEF Serve!GetFile
  <1>3. There(path) => Serve!Found(h, path) # {} BY FoundIs
  <1>4. There(inner) => Serve!Found(h, inner) # {} BY FoundIs
  <1> HIDE DEF path, inner, There, skip
  <1>5. Serve!GetFile(h, u) # {}
    <2>1. CASE ~skip /\ There(path) BY <2>1, <1>2, <1>3
    <2>2. CASE c.file # <<>> /\ There(inner) BY <2>2, <1>2, <1>4
    <2> QED BY <1>1, <2>1, <2>2
  <1> QED BY <1>1, <1>5 DEF Serve!CanHandle

\* The handler that gets a request is the list's, and can handle it; without one none can.
LEMMA AttachedIs ==
  ASSUME ServeTags, NEW u, NEW m
  PROVE  LET h == Serve!Attached(u, m)
         IN  \/ /\ h = Serve!CatchAll
                /\ \A i \in DOMAIN handlers : ~Serve!CanHandle(handlers[i], u, m)
             \/ h \in Serve!Handlers /\ h # Serve!CatchAll /\ Serve!CanHandle(h, u, m)
  <1> DEFINE can == {i \in DOMAIN handlers : Serve!CanHandle(handlers[i], u, m)}
  <1>1. Serve!Attached(u, m) = IF can = {} THEN Serve!CatchAll ELSE handlers[Serve!Min(can)]
    BY DEF Serve!Attached
  <1>2. CASE can = {} BY <1>1, <1>2
  <1>3. CASE can # {}
    <2>0. handlers \in Seq(Serve!Handlers) BY DEF ServeTags
    <2>1. can \in SUBSET Nat BY <2>0
    <2>2. \E x \in can : \A y \in can : x <= y
      <3> HIDE DEF can
      <3> QED BY <1>3, <2>1, LeastExists
    <2>3. Serve!Min(can) \in can BY <2>2 DEF Serve!Min
    <2>4. PICK i \in DOMAIN handlers : Serve!CanHandle(handlers[i], u, m)
                                       /\ Serve!Attached(u, m) = handlers[i]
      BY <1>1, <1>3, <2>3
    <2>5. handlers[i] \in Serve!Handlers BY <2>0, <2>4
    <2>6. handlers[i] # Serve!CatchAll BY <2>5, LibraryHandlers DEF Serve!Handlers, Serve!CatchAll
    <2> QED BY <2>4, <2>5, <2>6
  <1> QED BY <1>2, <1>3

\* What a GET is answered, and what the browser keeps of it.
LEMMA ServeGets ==
  ASSUME ServeTags, NEW u \in Urls, NEW a, Serve!Get(u, a)
  PROVE  /\ ServeTags'
         /\ \A i \in DOMAIN answers' : answers'[i].code = 304 =>
               \/ copy[asking'.url].content = served[asking'.file]
               \/ Serve!Dated(Serve!Attached(asking'.to, "GET"), copy[asking'.url])
         /\ answers'[1].code = 500 =>
               \A i \in DOMAIN handlers : ~Serve!Reaches(handlers[i], asking'.to)
  <1> DEFINE to == Serve!Rewritten(u)
             h == Serve!Attached(to, "GET")
             static == h # Serve!CatchAll /\ HandlerConfig[h].kind = "static"
             found == IF static THEN CHOOSE p \in Serve!GetFile(h, to) : TRUE ELSE <<>>
             answer == Serve!Answer(h, a, found, copy[u])
             dated == Serve!Dated(h, copy[u])
  <1>1. /\ asking' = [handler |-> "none", url |-> u, to |-> to, file |-> found]
        /\ answers' = <<answer>> /\ copy' = Serve!Kept(u, answer)
        /\ UNCHANGED <<handlers, served>>
    BY DEF Serve!Get, Serve!None
  <1>2. static => served[found] \in Contents
    <2> SUFFICES ASSUME static PROVE served[found] \in Contents OBVIOUS
    <2>1. Serve!CanHandle(h, to, "GET") BY AttachedIs
    <2>2. Serve!GetFile(h, to) # {} BY <2>1 DEF Serve!CanHandle
    <2>3. found \in Serve!GetFile(h, to) BY <2>2
    <2>4. found \in Paths /\ served[found] # Serve!None BY <2>3, GotIs
    <2> QED BY <2>4 DEF ServeTags
  <1>3. h = Serve!CatchAll \/ (h \in Serve!Handlers /\ HandlerConfig[h].kind \in {"static", "callback"})
    BY AttachedIs, LibraryHandlers DEF Serve!Handlers
  <1>4. h = Serve!CatchAll => \A i \in DOMAIN handlers : ~Serve!CanHandle(handlers[i], to, "GET")
    BY AttachedIs
  <1> HIDE DEF h, to, found
  <1> DEFINE size == ContentSize[served[found]]
             full == [code |-> 200, content |-> served[found], modified |-> HandlerConfig[h].modified,
                      etag |-> IF HandlerConfig[h].cached THEN size ELSE 0]
  <1>5. \/ answer.code \in {401, 500} /\ (answer.code = 500 => h = Serve!CatchAll)
        \/ answer = [code |-> 200]
        \/ static /\ answer = [code |-> 304] /\ (dated \/ copy[u].etag = size)
        \/ static /\ answer = full
    <2> HIDE DEF dated
    <2> QED BY <1>3 DEF Serve!Answer, dated
  <1>d. dated = Serve!Dated(Serve!Attached(to, "GET"), copy[u]) BY DEF h
  <1> HIDE DEF static, answer, dated
  <1>6. TagIsSize(copy[u]) BY DEF ServeTags
  <1>7. ASSUME answer.code = 304, ~dated PROVE copy[u].content = served[found]
    <2>1. answer # full BY <1>7
    <2>2. answer # [code |-> 200] BY <1>7
    <2>3. static /\ copy[u].etag = size BY <2>1, <2>2, <1>5, <1>7
    <2>4. served[found] \in Contents BY <1>2, <2>3
    <2>5. copy[u].etag # 0 BY <2>3, <2>4, LibraryTags
    <2>6. copy[u].content \in Contents /\ ContentSize[copy[u].content] = size
      BY <1>6, <2>3, <2>5 DEF TagIsSize
    <2> QED BY <2>4, <2>6, LibraryTags
  <1>8. \A i \in DOMAIN answers' : answers'[i] = answer BY <1>1
  <1>9. answers'[1] = answer BY <1>1
  <1>10. ASSUME answer.code = 500
         PROVE  \A i \in DOMAIN handlers : ~Serve!Reaches(handlers[i], to)
    <2>1. answer # full /\ answer # [code |-> 200] /\ answer # [code |-> 304] BY <1>10
    <2>2. h = Serve!CatchAll BY <2>1, <1>5, <1>10
    <2> QED BY <2>2, <1>4, ReachedIs
  <1>11. asking'.url = u /\ asking'.file = found /\ asking'.to = to /\ asking'.handler = "none"
    BY <1>1
  <1>12. ServeTags'
    <2>1. copy' = copy \/ \E c : copy' = [copy EXCEPT ![u] = c] /\ TagIsSize(c)
      <3>1. CASE answer.code # 200 \/ "content" \notin DOMAIN answer
        BY <1>1, <3>1 DEF Serve!Kept
      <3>2. CASE ~(answer.code # 200 \/ "content" \notin DOMAIN answer)
        <4>1. answer # [code |-> 200] /\ answer # [code |-> 304] /\ answer.code \notin {401, 500}
          BY <3>2
        <4>2. static /\ answer = full BY <4>1, <1>5
        <4> DEFINE c == IF answer.etag = 0 /\ answer.modified = "none" THEN Serve!NoCopy
                        ELSE [content |-> answer.content, etag |-> answer.etag,
                              modified |-> answer.modified]
        <4>3. copy' = [copy EXCEPT ![u] = c] BY <1>1, <3>2 DEF Serve!Kept, Serve!None
        <4>4. CASE answer.etag = 0 /\ answer.modified = "none"
          <5>1. c = Serve!NoCopy BY <4>4
          <5>2. TagIsSize(Serve!NoCopy) BY DEF TagIsSize, Serve!NoCopy
          <5> QED BY <4>3, <5>1, <5>2
        <4>5. CASE ~(answer.etag = 0 /\ answer.modified = "none")
          <5>1. answer.content = served[found] /\ answer.etag \in {0, size} BY <4>2
          <5>2. c.content = served[found] /\ c.etag \in {0, size} BY <5>1, <4>5
          <5>3. TagIsSize(c) BY <5>2, <4>2, <1>2 DEF TagIsSize
          <5> QED BY <4>3, <5>3
        <4> QED BY <4>4, <4>5
      <3> QED BY <3>1, <3>2
    <2>2. copy' = [v \in Urls |-> copy'[v]] /\ \A v \in Urls : TagIsSize(copy'[v])
      <3>1. copy = [v \in Urls |-> copy[v]] /\ \A v \in Urls : TagIsSize(copy[v])
        BY DEF ServeTags
      <3>2. CASE copy' = copy BY <3>1, <3>2
      <3>3. ASSUME NEW c, copy' = [copy EXCEPT ![u] = c], TagIsSize(c)
            PROVE  copy' = [v \in Urls |-> copy'[v]] /\ \A v \in Urls : TagIsSize(copy'[v])
        <4>1. copy' = [v \in Urls |-> IF v = u THEN c ELSE copy[v]] BY <3>1, <3>3
        <4>2. copy' = [v \in Urls |-> copy'[v]] BY <4>1
        <4>3. \A v \in Urls : copy'[v] = c \/ copy'[v] = copy[v] BY <4>1
        <4> QED BY <4>2, <4>3, <3>1, <3>3
      <3> QED BY <2>1, <3>2, <3>3
    <2> QED BY <2>2, <1>1, <1>11 DEF ServeTags
  <1>13. ASSUME answer.code = 304
         PROVE  \/ copy[asking'.url].content = served[asking'.file]
                \/ Serve!Dated(Serve!Attached(asking'.to, "GET"), copy[asking'.url])
    BY <1>7, <1>11, <1>13, <1>d
  <1> QED BY <1>8, <1>9, <1>10, <1>11, <1>12, <1>13

LEMMA ServePosts ==
  ASSUME ServeTags, NEW u, NEW a, NEW n, Serve!Post(u, a, n)
  PROVE  ServeTags' /\ answers' = <<>> /\ "to" \notin DOMAIN asking'
  <1> DEFINE h == Serve!Attached(Serve!Rewritten(u), "POST")
  <1>1. /\ asking' = [handler |-> h, auth |-> a, pieces |-> n, left |-> n]
        /\ answers' = <<>> /\ UNCHANGED <<handlers, served, copy>>
    BY DEF Serve!Post
  <1>2. Takes(h)
    <2>1. h = Serve!CatchAll
          \/ (h \in Serve!Handlers /\ Serve!CanHandle(h, Serve!Rewritten(u), "POST"))
      BY AttachedIs
    <2> HIDE DEF h
    <2>2. h = Serve!CatchAll \/ (h \in Serve!Handlers /\ HandlerConfig[h].kind # "static")
      BY <2>1 DEF Serve!CanHandle
    <2> QED BY <2>2, LibraryHandlers DEF Takes, Serve!Handlers
  <1> HIDE DEF h
  <1>3. asking'.handler = h /\ "to" \notin DOMAIN asking' BY <1>1
  <1> QED BY <1>1, <1>2, <1>3 DEF ServeTags

\* A body's pieces are refused or taken; neither says "not modified", and none finds a file.
LEMMA ServeBodies ==
  ASSUME ServeInv, ServeTags, Serve!Body
  PROVE  /\ ServeTags' /\ "to" \notin DOMAIN asking'
         /\ \A i \in DOMAIN answers' : answers'[i].code # 304
  <1> DEFINE h == asking.handler
             last == asking.left = 1
             refused == IF Serve!Allowed(h, asking.auth) THEN <<>> ELSE <<Refusal>>
             answer == Serve!Answer(h, asking.auth, <<>>, Serve!NoCopy)
             final == IF last THEN <<answer>> ELSE <<>>
             Modified == {r \in {answer, Refusal} : r.code # 304}
  <1>1. /\ h # "none"
        /\ answers' = answers \o refused \o final
        /\ asking' = IF last THEN [asking EXCEPT !.handler = "none", !.left = 0]
                     ELSE [asking EXCEPT !.left = @ - 1]
        /\ UNCHANGED <<handlers, served, copy>>
    BY DEF Serve!Body, Serve!None, Refusal
  <1>2. asking = [handler |-> h, auth |-> asking.auth, pieces |-> asking.pieces, left |-> asking.left]
    BY <1>1 DEF ServeInv, ServeAsked
  <1>3. Takes(h) BY <1>1 DEF ServeTags
  <1>4. answer.code # 304
    BY <1>3 DEF Serve!Answer, Takes
  <1>5. answers \in Seq(Modified)
    <2>1. Refusal \in Modified BY DEF Refusal
    <2> HIDE DEF Modified
    <2>2. CASE answers = <<>> BY <2>2
    <2>3. CASE answers \in Seq({Refusal})
      <3>1. \A i \in 1 .. Len(answers) : answers[i] = Refusal BY <2>3
      <3> QED BY <3>1, <2>1, <2>3
    <2> QED BY <1>1, <2>2, <2>3 DEF ServeInv, ServeAsked
  <1>6. refused \in Seq(Modified) /\ final \in Seq(Modified)
    <2>1. Refusal \in Modified /\ answer \in Modified BY <1>4 DEF Refusal
    <2> HIDE DEF Modified, answer, last
    <2> QED BY <2>1
  <1>7. answers' \in Seq(Modified)
    <2> HIDE DEF refused, final, Modified
    <2>1. answers \o refused \in Seq(Modified) BY <1>5, <1>6, SeqJoins
    <2>2. (answers \o refused) \o final \in Seq(Modified) BY <1>6, <2>1, SeqJoins
    <2> QED BY <1>1, <2>2
  <1>8. \A i \in DOMAIN answers' : answers'[i].code # 304
    <2>1. \A r \in Modified : r.code # 304 OBVIOUS
    <2> HIDE DEF Modified
    <2> QED BY <1>7, <2>1
  <1>9. "to" \notin DOMAIN asking' /\ asking'.handler \in {"none", h}
    <2> HIDE DEF last
    <2>1. CASE last
      <3>1. DOMAIN asking' = {"handler", "auth", "pieces", "left"} BY <1>1, <1>2, <2>1
      <3>2. asking'.handler = "none" BY <1>1, <1>2, <2>1
      <3> QED BY <3>1, <3>2
    <2>2. CASE ~last
      <3>1. DOMAIN asking' = {"handler", "auth", "pieces", "left"} BY <1>1, <1>2, <2>2
      <3>2. asking'.handler = h BY <1>1, <1>2, <2>2
      <3> QED BY <3>1, <3>2
    <2> QED BY <2>1, <2>2
  <1>10. ServeTags' BY <1>1, <1>3, <1>9 DEF ServeTags
  <1> QED BY <1>8, <1>9, <1>10

LEMMA ServeStrays ==
  ASSUME ServeTags, Serve!Stray
  PROVE  ServeTags' /\ answers' = <<>> /\ "to" \notin DOMAIN asking'
  <1>1. asking' = [handler |-> "none"] /\ answers' = <<>> /\ UNCHANGED <<handlers, served, copy>>
    BY DEF Serve!Stray, Serve!NoRequest, Serve!None
  <1>2. asking'.handler = "none" /\ "to" \notin DOMAIN asking' BY <1>1
  <1> QED BY <1>1, <1>2 DEF ServeTags

\* The program's changes leave the browser and the request as they are.
LEMMA ServeAlters ==
  ASSUME ServeTags,
         \/ \E h \in Serve!Handlers : Serve!AddHandler(h) \/ Serve!RemoveHandler(h)
         \/ \E r \in Rewrites : Serve!AddRewrite(r) \/ Serve!RemoveRewrite(r)
         \/ Serve!Reset
         \/ \E p \in Paths, c \in {Serve!None} \cup Contents : Serve!WriteFile(p, c)
  PROVE  ServeTags' /\ UNCHANGED <<asking, answers>>
  <1>0. handlers \in Seq(Serve!Handlers) /\ served \in [Paths -> {Serve!None} \cup Contents]
    BY DEF ServeTags
  <1>a. ASSUME UNCHANGED <<asking, answers, copy>>, handlers' \in Seq(Serve!Handlers),
               served' \in [Paths -> {Serve!None} \cup Contents]
        PROVE  ServeTags' /\ UNCHANGED <<asking, answers>>
    BY <1>a DEF ServeTags, TagIsSize, Takes
  <1>1. ASSUME NEW h \in Serve!Handlers, Serve!AddHandler(h)
        PROVE  ServeTags' /\ UNCHANGED <<asking, answers>>
    <2>1. handlers' = Append(handlers, h) /\ UNCHANGED <<served, asking, answers, copy>>
      BY <1>1 DEF Serve!AddHandler
    <2>2. handlers' \in Seq(Serve!Handlers) BY <1>0, <1>1, <2>1
    <2> QED BY <1>0, <1>a, <2>1, <2>2
  <1>2. ASSUME NEW h \in Serve!Handlers, Serve!RemoveHandler(h)
        PROVE  ServeTags' /\ UNCHANGED <<asking, answers>>
    <2>1. PICK i \in DOMAIN handlers :
             handlers' = SubSeq(handlers, 1, i - 1) \o SubSeq(handlers, i + 1, Len(handlers))
      BY <1>2 DEF Serve!RemoveHandler, Serve!RemoveAt
    <2>2. UNCHANGED <<served, asking, answers, copy>> BY <1>2 DEF Serve!RemoveHandler
    <2>3. i \in 1 .. Len(handlers) BY <1>0
    <2>4. SubSeq(handlers, 1, i - 1) \in Seq(Serve!Handlers)
          /\ SubSeq(handlers, i + 1, Len(handlers)) \in Seq(Serve!Handlers)
      BY <1>0, <2>3
    <2>5. handlers' \in Seq(Serve!Handlers) BY <2>1, <2>4, SeqJoins
    <2> QED BY <1>0, <1>a, <2>2, <2>5
  <1>3. CASE \E r \in Rewrites : Serve!AddRewrite(r) \/ Serve!RemoveRewrite(r)
    BY <1>0, <1>3, <1>a DEF Serve!AddRewrite, Serve!RemoveRewrite
  <1>4. CASE Serve!Reset BY <1>0, <1>4, <1>a DEF Serve!Reset
  <1>5. ASSUME NEW p \in Paths, NEW c \in {Serve!None} \cup Contents, Serve!WriteFile(p, c)
        PROVE  ServeTags' /\ UNCHANGED <<asking, answers>>
    <2>1. served' = [served EXCEPT ![p] = c] /\ UNCHANGED <<handlers, asking, answers, copy>>
      BY <1>5 DEF Serve!WriteFile
    <2>2. served' \in [Paths -> {Serve!None} \cup Contents] BY <1>0, <2>1
    <2> QED BY <1>0, <1>a, <2>1, <2>2
  <1> QED BY <1>1, <1>2, <1>3, <1>4, <1>5

\* The three facts about a step of the server that the invariant and the two properties need.
LEMMA ServeActs ==
  ASSUME ServeInv, ServeTags, Serve!Next
  PROVE  /\ ServeTags'
         /\ \A i \in DOMAIN answers' :
               answers' # answers /\ answers'[i].code = 304 =>
                  \/ copy[asking'.url].content = served[asking'.file]
                  \/ Serve!Dated(Serve!Attached(asking'.to, "GET"), copy[asking'.url])
         /\ <<asking', answers'>> # <<asking, answers>> /\ "to" \in DOMAIN asking' =>
               (answers'[1].code = 500 =>
                  \A i \in DOMAIN handlers : ~Serve!Reaches(handlers[i], asking'.to))
  <1>1. CASE \E u \in Urls, a \in BOOLEAN : Serve!Get(u, a) BY <1>1, ServeGets
  <1>2. CASE \E u \in Urls, a \in BOOLEAN, n \in Pieces : Serve!Post(u, a, n)
    BY <1>2, ServePosts
  <1>3. CASE Serve!Body BY <1>3, ServeBodies
  <1>4. CASE Serve!Stray BY <1>4, ServeStrays
  <1>5. CASE \/ \E h \in Serve!Handlers : Serve!AddHandler(h) \/ Serve!RemoveHandler(h)
             \/ \E r \in Rewrites : Serve!AddRewrite(r) \/ Serve!RemoveRewrite(r)
             \/ Serve!Reset
             \/ \E p \in Paths, c \in {Serve!None} \cup Contents : Serve!WriteFile(p, c)
    <2>1. ServeTags' /\ UNCHANGED <<asking, answers>> BY <1>5, ServeAlters
    <2> QED BY <2>1
  <1> QED BY <1>1, <1>2, <1>3, <1>4, <1>5 DEF Serve!Next, Serve!Change

LEMMA ServeTagsStand == ASSUME ServeTags, UNCHANGED serveVars PROVE ServeTags'
  BY DEF serveVars, ServeTags, TagIsSize, Takes

-----------------------------------------------------------------------------
(* Files: what each object knows of its file, whoever else writes it. *)

\* What an object knows of its file f[r.path]: the size is right, or a write has come
\* since, or the object was fooled; and bytes stdio holds are written ones, or it was.
FsShape(r) ==
    /\ r = [path |-> r.path, kind |-> r.kind, mode |-> r.mode, pos |-> r.pos, held |-> r.held,
            written |-> r.written, stat |-> r.stat, fooled |-> r.fooled]
    /\ r.pos \in Nat
FsKnows(r, f) ==
    r.kind = "file" =>
        /\ r.path \in FilePaths /\ f[r.path] # -1
        /\ r.held /\ ~r.written => r.fooled
        /\ ~r.fooled /\ ~r.written => r.stat = f[r.path]
FsInv ==
    /\ files \in [FilePaths -> Int] /\ \A p \in FilePaths : files[p] >= -1
    /\ file = [o \in Objects |-> file[o]]
    /\ \A o \in Objects : FsShape(file[o]) /\ FsKnows(file[o], files)

LEMMA FsSizes == FsInv => Fs!SizeIsTrue
  BY DEF FsInv, FsKnows, Fs!SizeIsTrue, Fs!IsFile

LEMMA FsClosed == FsShape(Fs!Closed) /\ \A f : FsKnows(Fs!Closed, f)
  BY DEF FsShape, FsKnows, Fs!Closed

LEMMA FsInit == Fs!Init => FsInv
  BY FsClosed DEF Fs!Init, FsInv, Fs!Absent

\* A step that gives an object another state, and leaves the files alone.
LEMMA FsSet ==
  ASSUME FsInv, NEW o \in Objects, NEW r, FsShape(r), FsKnows(r, files),
         Fs!Set(o, r), files' = files
  PROVE  FsInv'
  BY DEF FsInv, Fs!Set

\* A step that changes the length of one file; everybody who has it open is told.
LEMMA FsChange ==
  ASSUME FsInv, NEW q \in FilePaths, NEW n \in Nat, NEW o \in Objects, NEW r,
         files' = [files EXCEPT ![q] = n], FsShape(r), FsKnows(r, files'),
         file' = [x \in Objects |->
                    IF x = o THEN r
                    ELSE [file[x] EXCEPT !.fooled = @ \/ (file[x].path = q /\ n # files[q])]]
  PROVE  FsInv'
  <1>1. files' \in [FilePaths -> Int] /\ \A p \in FilePaths : files'[p] >= -1 BY DEF FsInv
  <1>2. ASSUME NEW x \in Objects, x # o PROVE FsShape(file'[x]) /\ FsKnows(file'[x], files')
    <2> DEFINE was == file[x]
               now == file'[x]
    <2>1. was = [path |-> was.path, kind |-> was.kind, mode |-> was.mode, pos |-> was.pos,
                 held |-> was.held, written |-> was.written, stat |-> was.stat,
                 fooled |-> was.fooled] /\ was.pos \in Nat
      BY DEF FsInv, FsShape
    <2>2. now = [path |-> was.path, kind |-> was.kind, mode |-> was.mode, pos |-> was.pos,
                 held |-> was.held, written |-> was.written, stat |-> was.stat,
                 fooled |-> (was.fooled \/ (was.path = q /\ n # files[q]))]
      BY <1>2, <2>1
    <2>3. FsKnows(was, files) BY DEF FsInv
    <2> HIDE DEF was, now
    <2>4. FsShape(now) BY <2>1, <2>2 DEF FsShape
    <2>5. FsKnows(now, files')
      <3> SUFFICES ASSUME now.kind = "file" PROVE
             /\ now.path \in FilePaths /\ files'[now.path] # -1
             /\ now.held /\ ~now.written => now.fooled
             /\ ~now.fooled /\ ~now.written => now.stat = files'[now.path]
        BY DEF FsKnows
      <3>1. /\ was.path \in FilePaths /\ files[was.path] # -1
            /\ was.held /\ ~was.written => was.fooled
            /\ ~was.fooled /\ ~was.written => was.stat = files[was.path]
        BY <2>2, <2>3 DEF FsKnows
      <3>2. now.path = was.path /\ now.held = was.held /\ now.written = was.written
            /\ now.stat = was.stat BY <2>2
      <3>3. now.fooled <=> was.fooled \/ (was.path = q /\ n # files[q]) BY <2>2
      <3>4. files'[was.path] = IF was.path = q THEN n ELSE files[was.path]
        BY <3>1 DEF FsInv
      <3> QED BY <3>1, <3>2, <3>3, <3>4
    <2> QED BY <2>4, <2>5 DEF now
  <1>3. file'[o] = r OBVIOUS
  <1>4. file' = [x \in Objects |-> file'[x]] OBVIOUS
  <1> QED BY <1>1, <1>2, <1>3, <1>4 DEF FsInv

\* What stdio holds reaches the file of an object that stays open or is closed.
LEMMA FsSpill ==
  ASSUME FsInv, NEW o \in Objects, Fs!IsFile(o), NEW r, FsShape(r), Fs!Spill(o, r),
         \/ r.kind # "file"
         \/ /\ r.kind = "file" /\ r.path = file[o].path /\ r.written = file[o].written
            /\ r.stat = file[o].stat /\ r.fooled = file[o].fooled /\ ~r.held
  PROVE  FsInv'
  <1> DEFINE q == file[o].path
             n == Fs!Spilt(o)
  <1>1. /\ q \in FilePaths /\ files[q] \in Nat /\ file[o].pos \in Nat
        /\ file[o].held /\ ~file[o].written => file[o].fooled
        /\ ~file[o].fooled /\ ~file[o].written => file[o].stat = files[q]
    BY DEF FsInv, FsShape, FsKnows, Fs!IsFile
  <1>2. n \in Nat /\ (~file[o].held => n = files[q])
    BY <1>1 DEF Fs!Spilt, Fs!MaxOf
  <1>3. /\ files' = [files EXCEPT ![q] = n]
        /\ file' = [x \in Objects |->
                      IF x = o THEN r
                      ELSE [file[x] EXCEPT !.fooled = @ \/ (file[x].path = q /\ n # files[q])]]
    BY DEF Fs!Spill
  <1> HIDE DEF n
  <1>4. files'[q] = n BY <1>1, <1>3 DEF FsInv
  <1>5. FsKnows(r, files') BY <1>1, <1>2, <1>4 DEF FsKnows
  <1> HIDE DEF q
  <1> QED BY <1>1, <1>2, <1>3, <1>5, FsChange

\* What the operations make of an object's record.
LEMMA FsWritten ==
  ASSUME NEW f, FsShape(f), NEW n, NEW h, NEW w
  PROVE  [f EXCEPT !.pos = n, !.held = h, !.written = w] =
          [path |-> f.path, kind |-> f.kind, mode |-> f.mode, pos |-> n,
           held |-> h, written |-> w, stat |-> f.stat, fooled |-> f.fooled]
  <1> DEFINE g1 == [f EXCEPT !.pos = n]
  <1>1. g1 =
          [path |-> f.path, kind |-> f.kind, mode |-> f.mode, pos |-> n,
           held |-> f.held, written |-> f.written, stat |-> f.stat, fooled |-> f.fooled]
    BY DEF FsShape
  <1>2. [f EXCEPT !.pos = n, !.held = h] = [g1 EXCEPT !.held = h]
    OBVIOUS
  <1> HIDE DEF g1
  <1> DEFINE h1 == [g1 EXCEPT !.held = h]
  <1>3. h1 =
          [path |-> f.path, kind |-> f.kind, mode |-> f.mode, pos |-> n,
           held |-> h, written |-> f.written, stat |-> f.stat, fooled |-> f.fooled]
    BY <1>1
  <1>4. [f EXCEPT !.pos = n, !.held = h, !.written = w] = [h1 EXCEPT !.written = w]
    BY <1>2
  <1> HIDE DEF h1
  <1> QED BY <1>3, <1>4
LEMMA FsFlushed ==
  ASSUME NEW f, FsShape(f), NEW h
  PROVE  [f EXCEPT !.held = h] =
          [path |-> f.path, kind |-> f.kind, mode |-> f.mode, pos |-> f.pos,
           held |-> h, written |-> f.written, stat |-> f.stat, fooled |-> f.fooled]
  BY DEF FsShape
LEMMA FsSought ==
  ASSUME NEW f, FsShape(f), NEW h, NEW n
  PROVE  [f EXCEPT !.held = h, !.pos = n] =
          [path |-> f.path, kind |-> f.kind, mode |-> f.mode, pos |-> n,
           held |-> h, written |-> f.written, stat |-> f.stat, fooled |-> f.fooled]
  <1> DEFINE g1 == [f EXCEPT !.held = h]
  <1>1. g1 =
          [path |-> f.path, kind |-> f.kind, mode |-> f.mode, pos |-> f.pos,
           held |-> h, written |-> f.written, stat |-> f.stat, fooled |-> f.fooled]
    BY DEF FsShape
  <1>2. [f EXCEPT !.held = h, !.pos = n] = [g1 EXCEPT !.pos = n]
    OBVIOUS
  <1> HIDE DEF g1
  <1> QED BY <1>1, <1>2
LEMMA FsRead ==
  ASSUME NEW f, FsShape(f), NEW n
  PROVE  [f EXCEPT !.pos = n] =
          [path |-> f.path, kind |-> f.kind, mode |-> f.mode, pos |-> n,
           held |-> f.held, written |-> f.written, stat |-> f.stat, fooled |-> f.fooled]
  BY DEF FsShape
LEMMA FsLooked ==
  ASSUME NEW f, FsShape(f), NEW size, NEW w, NEW fool
  PROVE  [f EXCEPT !.stat = size, !.written = w, !.fooled = fool] =
          [path |-> f.path, kind |-> f.kind, mode |-> f.mode, pos |-> f.pos,
           held |-> f.held, written |-> w, stat |-> size, fooled |-> fool]
  <1> DEFINE g1 == [f EXCEPT !.stat = size]
  <1>1. g1 =
          [path |-> f.path, kind |-> f.kind, mode |-> f.mode, pos |-> f.pos,
           held |-> f.held, written |-> f.written, stat |-> size, fooled |-> f.fooled]
    BY DEF FsShape
  <1>2. [f EXCEPT !.stat = size, !.written = w] = [g1 EXCEPT !.written = w]
    OBVIOUS
  <1> HIDE DEF g1
  <1> DEFINE h1 == [g1 EXCEPT !.written = w]
  <1>3. h1 =
          [path |-> f.path, kind |-> f.kind, mode |-> f.mode, pos |-> f.pos,
           held |-> f.held, written |-> w, stat |-> size, fooled |-> f.fooled]
    BY <1>1
  <1>4. [f EXCEPT !.stat = size, !.written = w, !.fooled = fool] = [h1 EXCEPT !.fooled = fool]
    BY <1>2
  <1> HIDE DEF h1
  <1> QED BY <1>3, <1>4
LEMMA FsMade ==
  ASSUME NEW f, FsShape(f), NEW p, NEW k, NEW m
  PROVE  [f EXCEPT !.path = p, !.kind = k, !.mode = m] =
          [path |-> p, kind |-> k, mode |-> m, pos |-> f.pos, held |-> f.held,
           written |-> f.written, stat |-> f.stat, fooled |-> f.fooled]
  <1> DEFINE g1 == [f EXCEPT !.path = p]
  <1>1. g1 =
          [path |-> p, kind |-> f.kind, mode |-> f.mode, pos |-> f.pos, held |-> f.held,
           written |-> f.written, stat |-> f.stat, fooled |-> f.fooled]
    BY DEF FsShape
  <1>2. [f EXCEPT !.path = p, !.kind = k] = [g1 EXCEPT !.kind = k]
    OBVIOUS
  <1> HIDE DEF g1
  <1> DEFINE h1 == [g1 EXCEPT !.kind = k]
  <1>3. h1 =
          [path |-> p, kind |-> k, mode |-> f.mode, pos |-> f.pos, held |-> f.held,
           written |-> f.written, stat |-> f.stat, fooled |-> f.fooled]
    BY <1>1
  <1>4. [f EXCEPT !.path = p, !.kind = k, !.mode = m] = [h1 EXCEPT !.mode = m]
    BY <1>2
  <1> HIDE DEF h1
  <1> QED BY <1>3, <1>4
LEMMA FsLearnt ==
  ASSUME NEW f, FsShape(f), NEW size, NEW n, NEW fool
  PROVE  [f EXCEPT !.stat = size, !.pos = n, !.fooled = fool] =
          [path |-> f.path, kind |-> f.kind, mode |-> f.mode, pos |-> n, held |-> f.held,
           written |-> f.written, stat |-> size, fooled |-> fool]
  <1> DEFINE g1 == [f EXCEPT !.stat = size]
  <1>1. g1 =
          [path |-> f.path, kind |-> f.kind, mode |-> f.mode, pos |-> f.pos, held |-> f.held,
           written |-> f.written, stat |-> size, fooled |-> f.fooled]
    BY DEF FsShape
  <1>2. [f EXCEPT !.stat = size, !.pos = n] = [g1 EXCEPT !.pos = n]
    OBVIOUS
  <1> HIDE DEF g1
  <1> DEFINE h1 == [g1 EXCEPT !.pos = n]
  <1>3. h1 =
          [path |-> f.path, kind |-> f.kind, mode |-> f.mode, pos |-> n, held |-> f.held,
           written |-> f.written, stat |-> size, fooled |-> f.fooled]
    BY <1>1
  <1>4. [f EXCEPT !.stat = size, !.pos = n, !.fooled = fool] = [h1 EXCEPT !.fooled = fool]
    BY <1>2
  <1> HIDE DEF h1
  <1> QED BY <1>3, <1>4
LEMMA FsFound ==
  ASSUME NEW f, FsShape(f), NEW p, NEW k, NEW size
  PROVE  [f EXCEPT !.path = p, !.kind = k, !.stat = size] =
          [path |-> p, kind |-> k, mode |-> f.mode, pos |-> f.pos, held |-> f.held,
           written |-> f.written, stat |-> size, fooled |-> f.fooled]
  <1> DEFINE g1 == [f EXCEPT !.path = p]
  <1>1. g1 =
          [path |-> p, kind |-> f.kind, mode |-> f.mode, pos |-> f.pos, held |-> f.held,
           written |-> f.written, stat |-> f.stat, fooled |-> f.fooled]
    BY DEF FsShape
  <1>2. [f EXCEPT !.path = p, !.kind = k] = [g1 EXCEPT !.kind = k]
    OBVIOUS
  <1> HIDE DEF g1
  <1> DEFINE h1 == [g1 EXCEPT !.kind = k]
  <1>3. h1 =
          [path |-> p, kind |-> k, mode |-> f.mode, pos |-> f.pos, held |-> f.held,
           written |-> f.written, stat |-> f.stat, fooled |-> f.fooled]
    BY <1>1
  <1>4. [f EXCEPT !.path = p, !.kind = k, !.stat = size] = [h1 EXCEPT !.stat = size]
    BY <1>2
  <1> HIDE DEF h1
  <1> QED BY <1>3, <1>4

\* What a directory has still to tell are paths.
FsListed == unlisted \in [Objects -> SUBSET FilePaths]
LEMMA FsListedNext == ASSUME FsListed, Fs!Next PROVE FsListed'
  BY ZenonT(60) DEF FsListed, Fs!Next, Fs!Write, Fs!Flush, Fs!Spill, Fs!Read, Fs!Size, Fs!GetLastWrite, Fs!Close,
         Fs!RewindDirectory, Fs!Seek, Fs!Open, Fs!OpenNextFile, Fs!Remove, Fs!Mkdir, Fs!Rmdir, Fs!Rename,
         Fs!Restart

LEMMA FsNext == ASSUME FsInv, FsListed, Fs!Next PROVE FsInv'
  <1>0. \A o \in Objects : FsShape(file[o]) /\ FsKnows(file[o], files) BY DEF FsInv
  <1>1. ASSUME NEW o \in Objects, Fs!Write(o) PROVE FsInv'
    <2> DEFINE f == file[o]
               at == IF f.mode = "a" /\ ~f.held THEN files[f.path] ELSE f.pos
               r == [f EXCEPT !.pos = at + 1, !.held = TRUE, !.written = TRUE]
    <2>0. FsShape(f) /\ FsKnows(f, files) BY <1>0
    <2>1. Fs!IsFile(o) /\ Fs!Set(o, r) /\ files' = files BY <1>1 DEF Fs!Write
    <2>2. at \in Nat BY <2>0, <2>1 DEF FsInv, FsShape, FsKnows, Fs!IsFile
    <2> HIDE DEF at
    <2>3. r = [path |-> f.path, kind |-> f.kind, mode |-> f.mode, pos |-> at + 1,
               held |-> TRUE, written |-> TRUE, stat |-> f.stat, fooled |-> f.fooled]
      <3>1. \A m, h, w : [f EXCEPT !.pos = m, !.held = h, !.written = w] =
               [path |-> f.path, kind |-> f.kind, mode |-> f.mode, pos |-> m, held |-> h,
                written |-> w, stat |-> f.stat, fooled |-> f.fooled]
        BY <2>0, FsWritten
      <3> HIDE DEF f
      <3> QED BY <3>1
    <2>4. FsShape(r) BY <2>2, <2>3 DEF FsShape
    <2>5. FsKnows(r, files) BY <2>0, <2>3 DEF FsKnows
    <2> HIDE DEF r
    <2> QED BY <2>1, <2>4, <2>5, FsSet
  <1>2. ASSUME NEW o \in Objects, Fs!Flush(o) PROVE FsInv'
    <2> DEFINE f == file[o]
               r == [f EXCEPT !.held = FALSE]
    <2>0. FsShape(f) /\ FsKnows(f, files) BY <1>0
    <2>1. Fs!IsFile(o) /\ Fs!Spill(o, r) BY <1>2 DEF Fs!Flush
    <2>2. r = [path |-> f.path, kind |-> f.kind, mode |-> f.mode, pos |-> f.pos,
               held |-> FALSE, written |-> f.written, stat |-> f.stat, fooled |-> f.fooled]
      BY <2>0, FsFlushed
    <2>3. FsShape(r) BY <2>0, <2>2 DEF FsShape
    <2>4. r.kind = "file" BY <2>1, <2>2 DEF Fs!IsFile
    <2>5. /\ r.path = f.path /\ r.written = f.written /\ r.stat = f.stat
          /\ r.fooled = f.fooled /\ ~r.held
      BY <2>2
    <2> HIDE DEF r
    <2> QED BY <2>1, <2>3, <2>4, <2>5, FsSpill
  <1>3. ASSUME NEW o \in Objects, NEW m \in 0 .. MaxLength, Fs!Seek(o, m) PROVE FsInv'
    <2> DEFINE f == file[o]
               r == [f EXCEPT !.held = FALSE, !.pos = m]
    <2>0. FsShape(f) /\ FsKnows(f, files) BY <1>0
    <2>1. Fs!IsFile(o) /\ Fs!Spill(o, r) BY <1>3 DEF Fs!Seek
    <2>2. r = [path |-> f.path, kind |-> f.kind, mode |-> f.mode, pos |-> m,
               held |-> FALSE, written |-> f.written, stat |-> f.stat, fooled |-> f.fooled]
      BY <2>0, FsSought
    <2>3. FsShape(r) BY <2>2 DEF FsShape
    <2>4. r.kind = "file" BY <2>1, <2>2 DEF Fs!IsFile
    <2>5. /\ r.path = f.path /\ r.written = f.written /\ r.stat = f.stat
          /\ r.fooled = f.fooled /\ ~r.held
      BY <2>2
    <2> HIDE DEF r
    <2> QED BY <2>1, <2>3, <2>4, <2>5, FsSpill
  <1>4. ASSUME NEW o \in Objects, Fs!Read(o) PROVE FsInv'
    <2> DEFINE f == file[o]
               r == [f EXCEPT !.pos = @ + 1]
    <2>0. FsShape(f) /\ FsKnows(f, files) BY <1>0
    <2>1. Fs!Set(o, r) /\ files' = files BY <1>4 DEF Fs!Read
    <2>2. r = [path |-> f.path, kind |-> f.kind, mode |-> f.mode, pos |-> f.pos + 1,
               held |-> f.held, written |-> f.written, stat |-> f.stat, fooled |-> f.fooled]
      BY <2>0, FsRead
    <2>3. FsShape(r) BY <2>0, <2>2 DEF FsShape
    <2>4. FsKnows(r, files) BY <2>0, <2>2 DEF FsKnows
    <2> HIDE DEF r
    <2> QED BY <2>1, <2>3, <2>4, FsSet
  <1>5. ASSUME NEW o \in Objects, Fs!Size(o) \/ Fs!GetLastWrite(o) PROVE FsInv'
    <2> DEFINE f == file[o]
               r == [f EXCEPT !.stat = files[f.path], !.written = FALSE, !.fooled = f.held]
    <2>0. FsShape(f) /\ FsKnows(f, files) BY <1>0
    <2>1. Fs!Set(o, r) /\ files' = files BY <1>5 DEF Fs!Size, Fs!GetLastWrite, Fs!LookAgain
    <2>2. r = [path |-> f.path, kind |-> f.kind, mode |-> f.mode, pos |-> f.pos,
               held |-> f.held, written |-> FALSE, stat |-> files[f.path], fooled |-> f.held]
      <3>1. \A size, w, fool : [f EXCEPT !.stat = size, !.written = w, !.fooled = fool] =
               [path |-> f.path, kind |-> f.kind, mode |-> f.mode, pos |-> f.pos, held |-> f.held,
                written |-> w, stat |-> size, fooled |-> fool]
        BY <2>0, FsLooked
      <3> HIDE DEF f
      <3> QED BY <3>1
    <2>3. FsShape(r) BY <2>0, <2>2 DEF FsShape
    <2>4. FsKnows(r, files) BY <2>0, <2>2 DEF FsKnows
    <2> HIDE DEF r
    <2> QED BY <2>1, <2>3, <2>4, FsSet
  <1>6. ASSUME NEW o \in Objects, Fs!Close(o) PROVE FsInv'
    <2>1. CASE Fs!IsFile(o) /\ Fs!Spill(o, Fs!Closed)
      <3>1. Fs!Closed.kind # "file" BY DEF Fs!Closed
      <3> QED BY <2>1, <3>1, FsClosed, FsSpill
    <2>2. CASE Fs!Set(o, Fs!Closed) /\ files' = files BY <2>2, FsClosed, FsSet
    <2> QED BY <1>6, <2>1, <2>2 DEF Fs!Close
  <1>7. ASSUME NEW o \in Objects, NEW p \in FilePaths, NEW mode \in {"r", "w", "a"},
               Fs!Open(o, p, mode)
        PROVE  FsInv'
    <2> DEFINE len == files[p]
               found == len # -1
               n == IF ~found \/ mode = "w" THEN 0 ELSE len
               f == [Fs!Closed EXCEPT !.path = p, !.kind = "file", !.mode = mode]
               size0 == IF found THEN len ELSE Fs!Garbage
               pos0 == IF mode = "a" THEN files'[p] ELSE 0
               fooled0 == ~found \/ files'[p] # len
               r == [f EXCEPT !.stat = size0, !.pos = pos0, !.fooled = fooled0]
               d == [f EXCEPT !.kind = "dir"]
    <2>1. n \in Nat /\ len \in Int BY DEF FsInv
    <2>2. f = [path |-> p, kind |-> "file", mode |-> mode, pos |-> Fs!Closed.pos, held |-> Fs!Closed.held,
           written |-> Fs!Closed.written, stat |-> Fs!Closed.stat, fooled |-> Fs!Closed.fooled]
      BY FsClosed, FsMade
    <2>3. FsShape(f) /\ ~f.held /\ ~f.written
      <3>1. f.pos = 0 /\ ~f.held /\ ~f.written BY <2>2 DEF Fs!Closed
      <3> HIDE DEF f
      <3> QED BY <2>2, <3>1 DEF FsShape
    <2>4. CASE /\ files' = [files EXCEPT ![p] = n]
               /\ file' = [x \in Objects |->
                      IF x = o THEN r
                      ELSE [file[x] EXCEPT !.fooled = @ \/ (file[x].path = p /\ files'[p] # len)]]
      <3> HIDE DEF f
      <3>1. files'[p] = n BY <2>4 DEF FsInv
      <3>2. \A size, at, fool :
               [f EXCEPT !.stat = size, !.pos = at, !.fooled = fool] =
               [path |-> f.path, kind |-> f.kind, mode |-> f.mode, pos |-> at, held |-> f.held,
           written |-> f.written, stat |-> size, fooled |-> fool]
        BY <2>3, FsLearnt
      <3>3. r = [path |-> f.path, kind |-> f.kind, mode |-> f.mode, pos |-> pos0, held |-> f.held,
                 written |-> f.written, stat |-> size0, fooled |-> fooled0]
        <4> HIDE DEF size0, pos0, fooled0
        <4> QED BY <3>2
      <3> HIDE DEF n
      <3>4. r.path = p /\ r.pos \in Nat /\ ~r.held /\ ~r.written /\ (~r.fooled => r.stat = n)
        BY ZenonT(60), <2>1, <2>2, <2>3, <3>1, <3>3
      <3> HIDE DEF r
      <3>5. FsShape(r) BY <3>3, <3>4 DEF FsShape
      <3>6. FsKnows(r, files') BY <2>1, <3>1, <3>4 DEF FsKnows
      <3> QED BY <2>1, <2>4, <3>1, <3>5, <3>6, FsChange
    <2>5. CASE Fs!Set(o, d) /\ files' = files
      <3> HIDE DEF f
      <3>1. d = [path |-> f.path, kind |-> "dir", mode |-> f.mode, pos |-> f.pos, held |-> f.held,
           written |-> f.written, stat |-> f.stat, fooled |-> f.fooled] /\ f.pos \in Nat
        BY <2>3 DEF FsShape
      <3> HIDE DEF d
      <3>2. FsShape(d) /\ d.kind # "file" BY <3>1 DEF FsShape
      <3> QED BY <2>5, <3>2, FsSet DEF FsKnows
    <2> QED BY <1>7, <2>4, <2>5 DEF Fs!Open, Fs!Absent
  <1>8. ASSUME NEW o \in Objects, NEW n \in Objects, Fs!OpenNextFile(o, n) PROVE FsInv'
    <2>1. PICK q \in unlisted[o] :
             IF files[q] = -1 THEN UNCHANGED file
             ELSE Fs!Set(n, [Fs!Closed EXCEPT !.path = q, !.kind = "file", !.stat = files[q]])
      BY <1>8 DEF Fs!OpenNextFile, Fs!Absent
    <2>2. files' = files /\ q \in FilePaths BY <1>8 DEF Fs!OpenNextFile, FsListed
    <2> DEFINE r == [Fs!Closed EXCEPT !.path = q, !.kind = "file", !.stat = files[q]]
    <2>3. r = [path |-> q, kind |-> "file", mode |-> Fs!Closed.mode, pos |-> Fs!Closed.pos, held |-> Fs!Closed.held,
           written |-> Fs!Closed.written, stat |-> files[q], fooled |-> Fs!Closed.fooled]
      <3>1. \A size : [Fs!Closed EXCEPT !.path = q, !.kind = "file", !.stat = size] =
               [path |-> q, kind |-> "file", mode |-> Fs!Closed.mode, pos |-> Fs!Closed.pos,
                held |-> Fs!Closed.held, written |-> Fs!Closed.written, stat |-> size,
                fooled |-> Fs!Closed.fooled]
        BY FsClosed, FsFound
      <3> QED BY <3>1
    <2>4. CASE files[q] = -1 BY <2>1, <2>2, <2>4 DEF FsInv
    <2>5. CASE files[q] # -1
      <3>1. r.pos = 0 /\ ~r.held /\ r.path = q /\ r.stat = files[q] BY <2>3 DEF Fs!Closed
      <3>2. Fs!Set(n, r) BY <2>1, <2>5
      <3> HIDE DEF r
      <3>3. FsShape(r) BY <2>3, <3>1 DEF FsShape
      <3>4. FsKnows(r, files) BY <2>2, <2>5, <3>1 DEF FsKnows
      <3> QED BY <2>2, <3>2, <3>3, <3>4, FsSet
    <2> QED BY <2>4, <2>5
  <1>9. ASSUME NEW p \in FilePaths, Fs!Remove(p) \/ \E q \in FilePaths : Fs!Rename(p, q)
        PROVE  FsInv'
    <2>1. PICK q \in FilePaths, m \in Int :
             /\ m >= -1 /\ files' = [files EXCEPT ![p] = -1, ![q] = m]
             /\ \A o \in Objects : file[o].path # p
             /\ p = q \/ files[q] = -1
      <3>1. CASE Fs!Remove(p)
        <4>1. files' = [files EXCEPT ![p] = -1, ![p] = -1]
          BY <3>1 DEF Fs!Remove, Fs!Absent, FsInv
        <4>2. \A o \in Objects : file[o].path # p BY <3>1 DEF Fs!Remove, Fs!InUse
        <4>3. -1 \in Int /\ -1 >= -1 OBVIOUS
        <4> QED BY <4>1, <4>2, <4>3
      <3>2. CASE \E q \in FilePaths : Fs!Rename(p, q)
        <4>1. PICK q \in FilePaths : Fs!Rename(p, q) BY <3>2
        <4>2. files[p] \in Int /\ files[p] >= -1 BY DEF FsInv
        <4>3. files' = [files EXCEPT ![p] = -1, ![q] = files[p]]
          BY <4>1 DEF Fs!Rename, Fs!Absent
        <4> QED BY <4>1, <4>2, <4>3 DEF Fs!Rename, Fs!InUse, Fs!Exists, Fs!Absent
      <3> QED BY <1>9, <3>1, <3>2
    <2>2. file' = file BY <1>9 DEF Fs!Remove, Fs!Rename
    <2>3. files' \in [FilePaths -> Int] /\ \A x \in FilePaths : files'[x] >= -1
      BY <2>1 DEF FsInv
    <2>4. \A x \in FilePaths : x # p /\ files[x] # -1 => files'[x] = files[x]
      BY <2>1 DEF FsInv
    <2>5. \A o \in Objects : FsKnows(file[o], files') BY <1>0, <2>1, <2>4 DEF FsKnows
    <2> QED BY <1>0, <2>2, <2>3, <2>5 DEF FsInv
  <1>10. CASE Fs!Restart BY <1>10, FsClosed DEF Fs!Restart, FsInv
  <1>11. CASE UNCHANGED <<files, file>> BY <1>11 DEF FsInv
  <1> QED
    BY <1>1, <1>2, <1>3, <1>4, <1>5, <1>6, <1>7, <1>8, <1>9, <1>10, <1>11
    DEF Fs!Next, Fs!RewindDirectory, Fs!Mkdir, Fs!Rmdir

-----------------------------------------------------------------------------
(* EEPROMClass: the blob in NVS, the copy in memory, and begin() between the two. *)

\* The blob is what was stored last; while begin() extends it the key holds the blob, filled
\* up; and a copy that is not dirty is the blob, unless the program holds a pointer into it.
StoreCopies == [data : {Store!Null} \cup Seq(Store!Bytes), size : Nat, dirty : BOOLEAN]
StoreCalls == [at : {"idle", "cut", "erase", "set", "load"}, size : Nat, key : Seq(Store!Bytes)]
StoreTyped ==
    /\ nvs \in Seq(Store!Bytes) /\ stored \in Seq(Store!Bytes)
    /\ mem \in StoreCopies
    /\ mem.data = Store!Null \/ mem.data \in [1 .. mem.size -> Store!Bytes]
    /\ call \in StoreCalls
    /\ handles \in 0 .. MaxHandles
StoreHandles ==
    /\ call.at # "idle" => handles > 0 /\ call.size > 0
    /\ mem.size > 0 => handles > 0
StoreKey == call.at = "erase" => call.key = Store!Padded(nvs, call.size) /\ Len(nvs) < call.size
StoreCopy ==
    /\ call.at \in {"idle", "cut", "erase"} /\ mem.data # Store!Null /\ mem.size > 0
    /\ ~mem.dirty /\ ~pointed /\ Len(nvs) = mem.size
    => mem.data = nvs
StoreInv == StoreTyped /\ StoreHandles /\ StoreKey /\ Store!StoredIsKept /\ StoreCopy

LEMMA StorePadded ==
    ASSUME NEW s \in Seq(Store!Bytes), NEW n \in Nat
    PROVE  /\ Store!Padded(s, n) \in Seq(Store!Bytes) /\ Len(Store!Padded(s, n)) = n
           /\ Len(s) <= n => SubSeq(Store!Padded(s, n), 1, Len(s)) = s
<1>1. Store!Padded(s, n) \in [1 .. n -> Store!Bytes]
  BY DEF Store!Padded, Store!Bytes
<1>2. Store!Padded(s, n) \in Seq(Store!Bytes) /\ Len(Store!Padded(s, n)) = n
  BY <1>1
<1>3. \A i \in 1 .. Len(s) : i <= n => Store!Padded(s, n)[i] = s[i]
  BY DEF Store!Padded
<1> QED
  BY <1>2, <1>3

\* A copy of n bytes is a sequence of n bytes.
LEMMA StoreCopyIs ==
    ASSUME NEW n \in Nat, NEW d \in [1 .. n -> Store!Bytes] PROVE d \in Seq(Store!Bytes) /\ Len(d) = n
OBVIOUS

\* An object without a copy, and no call of begin().
LEMMA StoreBoot ==
    /\ Store!Boot \in StoreCopies /\ Store!Boot.data = Store!Null /\ Store!Boot.size = 0 /\ ~Store!Boot.dirty
    /\ Store!Idle \in StoreCalls /\ Store!Idle.at = "idle" /\ <<>> \in Seq(Store!Bytes) /\ Store!None \in Seq(Store!Bytes)
<1>1. <<>> \in Seq(Store!Bytes)
  OBVIOUS
<1>2. Store!Boot \in StoreCopies /\ Store!Boot.data = Store!Null /\ Store!Boot.size = 0 /\ ~Store!Boot.dirty
  BY DEF Store!Boot, StoreCopies
<1> DEFINE e == <<>>
<1>3. e \in Seq(Store!Bytes)
  BY <1>1
<1> HIDE DEF e
<1>4. [at |-> "idle", size |-> 0, key |-> e] \in StoreCalls
  BY <1>3 DEF StoreCalls
<1>5. Store!Idle = [at |-> "idle", size |-> 0, key |-> e]
  BY DEF Store!Idle, Store!None, e
<1> QED
  BY <1>1, <1>2, <1>4, <1>5 DEF Store!None

LEMMA StoreInit == Store!Init => StoreInv
BY StoreBoot, LibrarySizes DEF Store!Init, StoreInv, StoreTyped, StoreHandles, StoreKey, Store!StoredIsKept, StoreCopy

LEMMA StoreBegin ==
    ASSUME StoreInv, NEW n \in Sizes, Store!Begin(n)
    PROVE  StoreInv'
<1> USE LibrarySizes DEF StoreInv, StoreTyped, StoreCopies, StoreCalls
<1>1. Store!Padded(nvs, n) \in Seq(Store!Bytes) /\ n \in Nat /\ n > 0
  BY StorePadded
<1>2. /\ call'.at \in {"cut", "erase", "load"} /\ call'.size = n /\ call'.key = Store!Padded(nvs, n)
      /\ call'.at = "erase" => Len(nvs) < n
      /\ call' \in StoreCalls
  BY <1>1 DEF Store!Begin
<1>3. /\ call.at = "idle" /\ handles' = handles + 1 /\ handles < MaxHandles
      /\ UNCHANGED <<nvs, mem, stored, halfStored, pointed>>
  BY DEF Store!Begin
<1> QED
  BY <1>1, <1>2, <1>3 DEF StoreHandles, StoreKey, Store!StoredIsKept, StoreCopy, Store!Padded

LEMMA StoreGoesOn ==
    ASSUME StoreInv, Store!Fail \/ Store!Cut \/ Store!Erase \/ Store!Set PROVE StoreInv'
<1> USE LibrarySizes DEF StoreInv, StoreTyped, StoreCopies, StoreCalls
<1>1. CASE Store!Fail
  BY <1>1 DEF Store!Fail, Store!Idle, Store!None, StoreHandles, StoreKey, Store!StoredIsKept, StoreCopy
<1>2. CASE Store!Cut
  BY <1>2 DEF Store!Cut, Store!Goto, StoreHandles, StoreKey, Store!StoredIsKept, StoreCopy
<1>3. CASE Store!Erase
  <2>1. SubSeq(call.key, 1, Len(nvs)) = nvs
    <3>1. call.key = Store!Padded(nvs, call.size) /\ Len(nvs) < call.size
      BY <1>3 DEF Store!Erase, StoreKey
    <3>2. nvs \in Seq(Store!Bytes) /\ call.size \in Nat
      BY DEF StoreCalls
    <3>3. Len(nvs) \in Nat /\ Len(nvs) <= call.size
      BY <3>1, <3>2
    <3>4. SubSeq(Store!Padded(nvs, call.size), 1, Len(nvs)) = nvs
      BY <3>2, <3>3, StorePadded
    <3> QED
      BY <3>1, <3>4
  <2>2. /\ call'.at = "set" /\ call'.key = call.key /\ nvs' = <<>> /\ call.at = "erase"
        /\ call'.size = call.size /\ UNCHANGED <<mem, handles, stored, halfStored, pointed>>
    BY <1>3 DEF Store!Erase, Store!Goto, Store!None
  <2>3. StoreTyped'
    BY <1>3, <2>2 DEF Store!Erase, Store!Goto
  <2>4. ~halfStored => nvs = stored
    BY <2>2 DEF Store!StoredIsKept
  <2>5. Store!StoredIsKept'
    BY <2>1, <2>2, <2>4 DEF Store!StoredIsKept
  <2> QED
    BY <2>2, <2>3, <2>5 DEF StoreHandles, StoreKey, StoreCopy
<1>4. CASE Store!Set
  BY <1>4 DEF Store!Set, Store!Goto, StoreHandles, StoreKey, Store!StoredIsKept, StoreCopy
<1> QED
  BY <1>1, <1>2, <1>3, <1>4

LEMMA StoreLoad ==
    ASSUME StoreInv, Store!Load PROVE StoreInv'
<1> USE LibrarySizes DEF StoreInv, StoreTyped, StoreCopies, StoreCalls
<1>1. /\ call.at = "load" /\ call' = Store!Idle /\ ~pointed'
      /\ UNCHANGED <<nvs, handles, stored, halfStored>>
  BY DEF Store!Load
<1>2. PICK d \in {Store!Null} \cup Seq(Store!Bytes), m \in Nat :
        /\ mem' = [mem EXCEPT !.data = d, !.size = m]
        /\ d = Store!Null \/ (d \in [1 .. m -> Store!Bytes] /\ (Len(nvs) = m => d = nvs))
        /\ m > 0 => handles > 0
  <2>1. CASE mem' = [mem EXCEPT !.data = Store!Null]
    <3>1. mem' = [mem EXCEPT !.data = Store!Null, !.size = mem.size]
      BY <2>1
    <3> QED
      BY <3>1 DEF StoreHandles
  <2>2. ASSUME NEW d \in IF Len(nvs) = call.size THEN {nvs} ELSE [1 .. call.size -> Store!Bytes],
               mem' = [mem EXCEPT !.data = d, !.size = call.size]
        PROVE  \E e \in {Store!Null} \cup Seq(Store!Bytes), m \in Nat :
                 /\ mem' = [mem EXCEPT !.data = e, !.size = m]
                 /\ e = Store!Null \/ (e \in [1 .. m -> Store!Bytes] /\ (Len(nvs) = m => e = nvs))
                 /\ m > 0 => handles > 0
    <3>1. d \in [1 .. call.size -> Store!Bytes] /\ (Len(nvs) = call.size => d = nvs)
      BY <2>2
    <3>2. d \in Seq(Store!Bytes)
      BY <3>1, StoreCopyIs
    <3> QED
      BY <1>1, <2>2, <3>1, <3>2 DEF StoreHandles
  <2> QED
    BY <2>1, <2>2 DEF Store!Load
<1>3. /\ mem'.data = d /\ mem'.size = m /\ mem'.dirty = mem.dirty
      /\ mem' \in StoreCopies
  BY <1>2
<1>4. StoreTyped'
  BY <1>1, <1>2, <1>3 DEF Store!Idle, Store!None
<1> QED
  BY <1>1, <1>2, <1>3, <1>4 DEF Store!Idle, StoreHandles, StoreKey, Store!StoredIsKept, StoreCopy

LEMMA StoreWrite ==
    ASSUME StoreInv, NEW a \in 0 .. mem.size, NEW m \in 1 .. 2,
           NEW s \in [1 .. m -> Values], Store!Write(a, s)
    PROVE  StoreInv'
<1> USE LibrarySizes DEF StoreInv, StoreTyped, StoreCopies, StoreCalls
<1> DEFINE d == [i \in DOMAIN mem.data |-> IF i \in a + 1 .. a + Len(s)
                                           THEN s[i - a] ELSE mem.data[i]]
<1>1. s \in Seq(Store!Bytes) /\ mem.data \in [1 .. mem.size -> Store!Bytes] /\ a \in Nat
  <2>2. s \in [1 .. m -> Store!Bytes] /\ m \in Nat
    BY DEF Store!Bytes
  <2>3. s \in Seq(Store!Bytes)
    BY <2>2, StoreCopyIs
  <2> QED
    BY <2>3 DEF Store!Write, Store!Usable
<1>2. d \in [1 .. mem.size -> Store!Bytes]
  <2>1. \A i \in 1 .. mem.size : i \in a + 1 .. a + Len(s) => s[i - a] \in Store!Bytes
    BY <1>1
  <2> QED
    BY <1>1, <2>1
<1> HIDE DEF d
<1>3. d \in Seq(Store!Bytes)
  BY <1>2, StoreCopyIs
<1>4. /\ mem' = [mem EXCEPT !.data = d, !.dirty = @ \/ Len(s) > 1 \/ d # mem.data]
      /\ UNCHANGED <<nvs, call, handles, stored, halfStored, pointed>>
  BY DEF Store!Write, d
<1>5. /\ mem'.data = d /\ mem'.size = mem.size
      /\ mem'.dirty <=> (mem.dirty \/ Len(s) > 1 \/ d # mem.data)
      /\ mem' \in StoreCopies
  BY <1>3, <1>4
<1>6. StoreTyped'
  BY <1>2, <1>4, <1>5
<1>7. StoreCopy'
  BY <1>4, <1>5 DEF StoreCopy, Store!Write, Store!Usable
<1> QED
  BY <1>4, <1>5, <1>6, <1>7 DEF StoreHandles, StoreKey, Store!StoredIsKept

LEMMA StorePointer ==
    ASSUME StoreInv,
           Store!GetDataPtr \/ \E a \in 0 .. mem.size, v \in Values : Store!WriteThrough(a, v)
    PROVE  StoreInv'
<1> USE LibrarySizes DEF StoreInv, StoreTyped, StoreCopies, StoreCalls
<1>1. CASE Store!GetDataPtr
  BY <1>1 DEF Store!GetDataPtr, Store!Usable, StoreHandles, StoreKey, Store!StoredIsKept, StoreCopy
<1>2. ASSUME NEW a \in 0 .. mem.size, NEW v \in Values, Store!WriteThrough(a, v) PROVE StoreInv'
  <2> DEFINE d == [mem.data EXCEPT ![a + 1] = v]
  <2>1. mem.data \in [1 .. mem.size -> Store!Bytes] /\ v \in Store!Bytes
    BY <1>2 DEF Store!WriteThrough, Store!Usable, Store!Bytes
  <2>2. d \in [1 .. mem.size -> Store!Bytes]
    BY <2>1
  <2> HIDE DEF d
  <2>3. d \in Seq(Store!Bytes)
    BY <2>2, StoreCopyIs
  <2>4. /\ mem' = [mem EXCEPT !.data = d] /\ pointed' = (pointed \/ ~mem.dirty)
        /\ UNCHANGED <<nvs, call, handles, stored, halfStored>>
    BY <1>2 DEF Store!WriteThrough, d
  <2>5. /\ mem'.data = d /\ mem'.size = mem.size /\ mem'.dirty = mem.dirty
        /\ mem' \in StoreCopies
    BY <2>3, <2>4
  <2> QED
    BY <2>2, <2>4, <2>5 DEF StoreHandles, StoreKey, Store!StoredIsKept, StoreCopy
<1> QED
  BY <1>1, <1>2

\* commit() and end() write the copy or leave the blob as it is.
LEMMA StoreCommit ==
    ASSUME StoreInv, NEW ok \in BOOLEAN, Store!Commit(ok) \/ Store!End(ok) PROVE StoreInv'
<1> USE LibrarySizes DEF StoreInv, StoreTyped, StoreCopies, StoreCalls
<1>1. nvs' \in Seq(Store!Bytes) /\ stored' \in Seq(Store!Bytes) /\ (~halfStored /\ call.at = "idle" => nvs' = stored')
  BY DEF Store!Commit, Store!End, Store!Committed, Store!StoredIsKept
<1>2. CASE Store!Commit(ok)
  <2>1. /\ mem' \in StoreCopies /\ mem'.data = mem.data /\ mem'.size = mem.size
        /\ mem'.dirty <=> (mem.dirty /\ ~(ok /\ mem.data # Store!Null /\ mem.size > 0))
        /\ pointed' <=> (pointed /\ ~(ok /\ mem.dirty))
        /\ call.at = "idle"
        /\ UNCHANGED <<call, handles, halfStored>>
    BY <1>2 DEF Store!Commit
  <2>2. StoreTyped' /\ Store!StoredIsKept'
    BY <1>1, <2>1 DEF Store!StoredIsKept
  <2>3. StoreCopy'
    <3>1. CASE UNCHANGED <<nvs, stored>>
      BY <1>2, <2>1, <3>1 DEF Store!Commit, Store!Committed, StoreCopy
    <3>2. CASE nvs' = mem.data
      BY <2>1, <3>2 DEF StoreCopy
    <3> QED
      BY <1>2, <3>1, <3>2 DEF Store!Commit, Store!Committed
  <2> QED
    BY <2>1, <2>2, <2>3 DEF StoreHandles, StoreKey
<1>3. CASE Store!End(ok)
  <2>1. /\ mem' \in StoreCopies /\ mem'.data = Store!Null /\ mem'.size = 0 /\ pointed' = FALSE
        /\ handles' = handles - 1 /\ handles > 0 /\ call.at = "idle" /\ UNCHANGED <<call, halfStored>>
    BY <1>3 DEF Store!End, StoreHandles
  <2>2. StoreTyped' /\ Store!StoredIsKept'
    BY <1>1, <2>1 DEF Store!StoredIsKept
  <2> QED
    BY <2>1, <2>2 DEF StoreHandles, StoreKey, StoreCopy
<1> QED
  BY <1>2, <1>3

LEMMA StoreRestart == ASSUME StoreInv, Store!Restart PROVE StoreInv'
<1>1. /\ mem' = Store!Boot /\ call' = Store!Idle /\ handles' = 0 /\ pointed' = FALSE
      /\ halfStored' = (halfStored \/ call.at = "set") /\ UNCHANGED <<nvs, stored>>
  BY DEF Store!Restart
<1>2. StoreTyped'
  BY <1>1, StoreBoot, LibrarySizes DEF StoreInv, StoreTyped
<1> QED
  BY <1>1, <1>2, StoreBoot DEF StoreInv, StoreHandles, StoreKey, Store!StoredIsKept, StoreCopy

LEMMA StoreNext == ASSUME StoreInv, Store!Next PROVE StoreInv'
  BY StoreBegin, StoreGoesOn, StoreLoad, StoreWrite, StorePointer, StoreCommit, StoreRestart
  DEF Store!Next

LEMMA StoreStands == ASSUME StoreInv, UNCHANGED storeVars PROVE StoreInv'
  BY DEF storeVars, StoreInv, StoreTyped, StoreHandles, StoreKey, Store!StoredIsKept, StoreCopy,
         Store!Padded

-----------------------------------------------------------------------------
(* hostByName(): who is past the idle bit, and what lwIP was asked for him. *)

\* Unless two tasks are past the idle bit at once, what is asked of lwIP is what the one
\* task waits for, the done bit says that it was answered, and its variable holds nothing
\* before that.
DnsShape ==
    /\ lookup = [t \in Callers |-> [at |-> lookup[t].at, host |-> lookup[t].host]]
    /\ aResult = [t \in Callers |-> aResult[t]]
DnsAlone == \A t \in Callers, u \in Callers : Dns!Past(t) /\ Dns!Past(u) => t = u
DnsAsked ==
    \A t \in Callers : \A h : <<t, h>> \in asked =>
        lookup[t].at = "wait" /\ lookup[t].host = h /\ "done" \notin dnsBits
DnsGot ==
    \A t \in Callers :
        /\ lookup[t].at \in {"free", "clear", "ask"} => aResult[t] = Dns!Zero /\ t \notin failed
        /\ lookup[t].at = "ask" => "done" \notin dnsBits
        /\ lookup[t].at = "wait" /\ <<t, lookup[t].host>> \in asked =>
               aResult[t] = Dns!Zero /\ t \notin failed
        /\ lookup[t].at = "release" \/ (lookup[t].at = "wait" /\ <<t, lookup[t].host>> \notin asked) =>
               aResult[t] = IF t \in failed THEN Dns!Zero ELSE lookup[t].host
DnsInv == DnsShape /\ (~overlapped => DnsAlone /\ DnsAsked /\ DnsGot)

LEMMA DnsOwn == DnsInv => Dns!LookupsAreOwn
  <1> SUFFICES ASSUME DnsInv, ~overlapped, NEW t \in Callers
               PROVE  /\ \A h : <<t, h>> \in asked => lookup[t] = [at |-> "wait", host |-> h]
                      /\ lookup[t].at = "release" =>
                             aResult[t] = IF t \in failed THEN Dns!Zero ELSE lookup[t].host
    BY DEF Dns!LookupsAreOwn
  <1>1. lookup[t] = [at |-> lookup[t].at, host |-> lookup[t].host] BY DEF DnsInv, DnsShape
  <1> QED BY <1>1 DEF DnsInv, DnsAsked, DnsGot

LEMMA DnsInit == Dns!Init => DnsInv
  <1> DEFINE h(t) == CHOOSE h \in Names[t] : TRUE
  <1> HIDE DEF h
  <1> SUFFICES ASSUME Dns!Init PROVE DnsInv OBVIOUS
  <1>1. /\ lookup = [t \in Callers |-> [at |-> "idle", host |-> h(t)]]
        /\ aResult = [t \in Callers |-> Dns!Zero] /\ asked = {}
    BY DEF Dns!Init, h
  <1>2. DnsShape BY <1>1 DEF DnsShape
  <1>3. \A t \in Callers : lookup[t].at = "idle" BY <1>1
  <1> QED BY <1>1, <1>2, <1>3 DEF DnsInv, DnsAlone, DnsAsked, DnsGot, Dns!Past

\* A task that goes on to another place, and keeps the name it asks for.
LEMMA DnsGoto ==
  ASSUME DnsShape, NEW t \in Callers, NEW p, Dns!Goto(t, p)
  PROVE  /\ lookup' = [u \in Callers |-> [at |-> lookup'[u].at, host |-> lookup'[u].host]]
         /\ lookup'[t].at = p /\ \A u \in Callers : u # t => lookup'[u] = lookup[u]
         /\ \A u \in Callers : lookup'[u].host = lookup[u].host
  BY DEF DnsShape, Dns!Goto

LEMMA DnsNext == ASSUME DnsInv, Dns!Next PROVE DnsInv'
  <1> USE DEF DnsInv
  <1>1. ASSUME NEW t \in Callers, NEW h, Dns!HostByName(t, h) PROVE DnsInv'
    <2>1. /\ lookup[t].at = "idle" /\ UNCHANGED <<dnsBits, asked, overlapped>>
          /\ failed' = failed \ {t}
      BY <1>1 DEF Dns!HostByName
    <2>2. /\ lookup'[t] = [at |-> "free", host |-> h]
          /\ \A u \in Callers : u # t => lookup'[u] = lookup[u]
          /\ aResult'[t] = Dns!Zero /\ \A u \in Callers : u # t => aResult'[u] = aResult[u]
          /\ DnsShape'
      BY <1>1 DEF Dns!HostByName, DnsShape
    <2>3. ASSUME ~overlapped PROVE DnsAlone' /\ DnsAsked' /\ DnsGot'
      <3>1. DnsAlone' BY <2>1, <2>2, <2>3 DEF DnsAlone, Dns!Past
      <3>2. DnsAsked' BY <2>1, <2>2, <2>3 DEF DnsAsked
      <3>3. DnsGot' BY <2>1, <2>2, <2>3 DEF DnsGot
      <3> QED BY <3>1, <3>2, <3>3
    <2> QED BY <2>1, <2>2, <2>3
  <1>2. ASSUME NEW t \in Callers, Dns!WaitIdle(t) PROVE DnsInv'
    <2>1. /\ lookup[t].at = "free" /\ UNCHANGED <<dnsBits, aResult, asked, failed>>
          /\ Dns!Goto(t, "clear")
          /\ ~overlapped' => ~overlapped /\ \A u \in Callers \ {t} : ~Dns!Past(u)
      BY <1>2 DEF Dns!WaitIdle
    <2>2. /\ lookup' = [u \in Callers |-> [at |-> lookup'[u].at, host |-> lookup'[u].host]]
          /\ lookup'[t].at = "clear" /\ \A u \in Callers : u # t => lookup'[u] = lookup[u]
          /\ \A u \in Callers : lookup'[u].host = lookup[u].host
      BY <2>1, DnsGoto
    <2>3. ASSUME ~overlapped' PROVE DnsAlone' /\ DnsAsked' /\ DnsGot'
      <3>1. DnsAlone' BY <2>1, <2>2, <2>3 DEF DnsAlone, Dns!Past
      <3>2. DnsAsked' BY <2>1, <2>2, <2>3 DEF DnsAsked
      <3>3. DnsGot' BY <2>1, <2>2, <2>3 DEF DnsGot
      <3> QED BY <3>1, <3>2, <3>3
    <2> QED BY <2>1, <2>2, <2>3 DEF DnsShape
  <1>3. ASSUME NEW t \in Callers, Dns!ClearBits(t) PROVE DnsInv'
    <2>1. /\ lookup[t].at = "clear" /\ UNCHANGED <<aResult, asked, failed, overlapped>>
          /\ Dns!Goto(t, "ask") /\ dnsBits' = {}
      BY <1>3 DEF Dns!ClearBits
    <2>2. /\ lookup' = [u \in Callers |-> [at |-> lookup'[u].at, host |-> lookup'[u].host]]
          /\ lookup'[t].at = "ask" /\ \A u \in Callers : u # t => lookup'[u] = lookup[u]
          /\ \A u \in Callers : lookup'[u].host = lookup[u].host
      BY <2>1, DnsGoto
    <2>3. ASSUME ~overlapped PROVE DnsAlone' /\ DnsAsked' /\ DnsGot'
      <3>1. DnsAlone' BY <2>1, <2>2, <2>3 DEF DnsAlone, Dns!Past
      <3>2. DnsAsked' BY <2>1, <2>2, <2>3 DEF DnsAsked
      <3>3. DnsGot' BY <2>1, <2>2, <2>3 DEF DnsGot
      <3> QED BY <3>1, <3>2, <3>3
    <2> QED BY <2>1, <2>2, <2>3 DEF DnsShape
  <1>4. ASSUME NEW t \in Callers, Dns!GetHostByName(t) PROVE DnsInv'
    <2> DEFINE p == lookup'[t].at
    <2>1. /\ lookup[t].at = "ask" /\ UNCHANGED <<dnsBits, overlapped>>
          /\ Dns!Goto(t, "release") \/ Dns!Goto(t, "wait")
      BY <1>4 DEF Dns!GetHostByName
    <2>2. /\ lookup' = [u \in Callers |-> [at |-> lookup'[u].at, host |-> lookup'[u].host]]
          /\ \A u \in Callers : u # t => lookup'[u] = lookup[u]
          /\ \A u \in Callers : lookup'[u].host = lookup[u].host
          /\ p \in {"release", "wait"}
          /\ Dns!Goto(t, "release") => p = "release"
          /\ Dns!Goto(t, "wait") => p = "wait"
      BY <2>1, DnsGoto
    <2>3. \/ /\ p = "release" /\ aResult' = [aResult EXCEPT ![t] = lookup[t].host]
             /\ UNCHANGED <<asked, failed>>
          \/ /\ p = "wait" /\ asked' = asked \cup {<<t, lookup[t].host>>}
             /\ UNCHANGED <<aResult, failed>>
          \/ /\ p = "release" /\ failed' = failed \cup {t} /\ UNCHANGED <<asked, aResult>>
      BY <1>4, <2>2 DEF Dns!GetHostByName
    <2>4. DnsShape' BY <2>2, <2>3 DEF DnsShape
    <2>5. ASSUME ~overlapped PROVE DnsAlone' /\ DnsAsked' /\ DnsGot'
      <3>1. DnsAlone' BY <2>1, <2>2, <2>5 DEF DnsAlone, Dns!Past
      <3>2. DnsAsked' BY <2>1, <2>2, <2>3, <2>5 DEF DnsAsked, DnsGot
      <3>3. \A u \in Callers \ {t} : ~Dns!Past(u) BY <2>1, <2>5 DEF DnsAlone, Dns!Past
      <3>4. aResult[t] = Dns!Zero /\ t \notin failed /\ "done" \notin dnsBits
        BY <2>1, <2>5 DEF DnsGot
      <3>5. DnsGot'
        BY <2>1, <2>2, <2>3, <2>5, <3>3, <3>4 DEF DnsGot, DnsShape, Dns!Past
      <3> QED BY <3>1, <3>2, <3>5
    <2> QED BY <2>1, <2>4, <2>5
  <1>5. ASSUME NEW t \in Callers, NEW h, Dns!FoundCallback(t, h) PROVE DnsInv'
    <2>1. /\ <<t, h>> \in asked /\ asked' = asked \ {<<t, h>>}
          /\ dnsBits' = dnsBits \cup {"done"} /\ UNCHANGED <<lookup, overlapped>>
          /\ \/ aResult' = [aResult EXCEPT ![t] = h] /\ UNCHANGED failed
             \/ failed' = failed \cup {t} /\ UNCHANGED aResult
      BY <1>5 DEF Dns!FoundCallback
    <2>2. DnsShape' BY <2>1 DEF DnsShape
    <2>3. ASSUME ~overlapped PROVE DnsAlone' /\ DnsAsked' /\ DnsGot'
      <3>1. lookup[t].at = "wait" /\ lookup[t].host = h BY <2>1, <2>3 DEF DnsAsked
      <3>2. \A u \in Callers \ {t} : ~Dns!Past(u) BY <2>3, <3>1 DEF DnsAlone, Dns!Past
      <3>3. aResult[t] = Dns!Zero /\ t \notin failed BY <2>1, <2>3, <3>1 DEF DnsGot
      <3>4. DnsAlone' BY <2>1, <2>3 DEF DnsAlone, Dns!Past
      <3>5. DnsAsked' BY <2>1, <2>3, <3>1, <3>2 DEF DnsAsked, Dns!Past
      <3>6. DnsGot' BY <2>1, <2>3, <3>1, <3>2, <3>3 DEF DnsGot, DnsShape, Dns!Past
      <3> QED BY <3>4, <3>5, <3>6
    <2> QED BY <2>1, <2>2, <2>3
  <1>6. ASSUME NEW t \in Callers, Dns!WaitDone(t) PROVE DnsInv'
    <2>1. /\ lookup[t].at = "wait" /\ UNCHANGED <<aResult, asked, failed, overlapped>>
          /\ "done" \in dnsBits \/ <<t, lookup[t].host>> \notin asked
          /\ Dns!Goto(t, "release") /\ dnsBits' = dnsBits \ {"done"}
      BY <1>6 DEF Dns!WaitDone
    <2>2. /\ lookup' = [u \in Callers |-> [at |-> lookup'[u].at, host |-> lookup'[u].host]]
          /\ lookup'[t].at = "release" /\ \A u \in Callers : u # t => lookup'[u] = lookup[u]
          /\ \A u \in Callers : lookup'[u].host = lookup[u].host
      BY <2>1, DnsGoto
    <2>3. ASSUME ~overlapped PROVE DnsAlone' /\ DnsAsked' /\ DnsGot'
      <3>1. \A h : <<t, h>> \notin asked BY <2>1, <2>3 DEF DnsAsked
      <3>2. DnsAlone' BY <2>1, <2>2, <2>3 DEF DnsAlone, Dns!Past
      <3>3. DnsAsked' BY <2>1, <2>2, <2>3, <3>1 DEF DnsAsked
      <3>4. DnsGot' BY <2>1, <2>2, <2>3, <3>1 DEF DnsGot
      <3> QED BY <3>2, <3>3, <3>4
    <2> QED BY <2>1, <2>2, <2>3 DEF DnsShape
  <1>7. ASSUME NEW t \in Callers, Dns!Release(t) PROVE DnsInv'
    <2>1. /\ lookup[t].at = "release" /\ UNCHANGED <<aResult, asked, failed, overlapped>>
          /\ Dns!Goto(t, "idle") /\ dnsBits' = dnsBits \cup {"idle"}
      BY <1>7 DEF Dns!Release
    <2>2. /\ lookup' = [u \in Callers |-> [at |-> lookup'[u].at, host |-> lookup'[u].host]]
          /\ lookup'[t].at = "idle" /\ \A u \in Callers : u # t => lookup'[u] = lookup[u]
          /\ \A u \in Callers : lookup'[u].host = lookup[u].host
      BY <2>1, DnsGoto
    <2>3. ASSUME ~overlapped PROVE DnsAlone' /\ DnsAsked' /\ DnsGot'
      <3>1. DnsAlone' BY <2>1, <2>2, <2>3 DEF DnsAlone, Dns!Past
      <3>2. DnsAsked' BY <2>1, <2>2, <2>3 DEF DnsAsked
      <3>3. DnsGot' BY <2>1, <2>2, <2>3 DEF DnsGot
      <3> QED BY <3>1, <3>2, <3>3
    <2> QED BY <2>1, <2>2, <2>3 DEF DnsShape
  <1> QED
    BY <1>1, <1>2, <1>3, <1>4, <1>5, <1>6, <1>7 DEF Dns!Next, Dns!LookupStep, Dns!LwipStep

LEMMA DnsStands == ASSUME DnsInv, UNCHANGED dnsVars PROVE DnsInv'
  BY DEF dnsVars, DnsInv, DnsShape, DnsAlone, DnsAsked, DnsGot, Dns!Past

-----------------------------------------------------------------------------
(* Scans: the calls of the program against the driver and the event task. *)

\* Unless a scan that still went on was given up: while the driver scans, or the event task
\* handles the end of it, WIFI_SCANNING_BIT keeps others out, but for the call that starts it;
\* no results are kept and none announced until they are those of the scan.
ScanGoesOn == radio # "idle" \/ scanTask # "rest"
ScanKept ==
    /\ ScanGoesOn => scanCall.at \in {"stamp", "clear", "mark"} \/ "scanning" \in scanBits
    /\ scanCall.at = "start" => "scanning" \notin scanBits
    /\ scanTask # "rest" => radio = "idle"
ScanResults ==
    /\ scanCall.at = "start" \/ radio # "idle" \/ scanTask = "records" => scanResult = <<>>
    /\ scanCall.at = "start" \/ radio # "idle" \/ scanTask \in {"records", "announce"}
           => "done" \notin scanBits
    /\ scanTask # "records" => count \in {0, Len(scanResult)}
    /\ scanTask = "records" => count = Len(survey)
    /\ scanCall.at = "pick" => radio = "idle" /\ scanTask \notin {"records", "announce"}
    /\ ~scanLeaked
ScanInv == "at" \in DOMAIN scanCall /\ (~givenUp => ScanKept /\ ScanResults)

LEMMA ScanFits == ScanInv => Scan!ResultsFit
  BY DEF ScanInv, ScanResults, Scan!ResultsFit

LEMMA ScanInit == Scan!Init => ScanInv
  BY DEF Scan!Init, Scan!Idle, ScanInv, ScanKept, ScanGoesOn, ScanResults

\* A call that goes on to another place, with or without an answer.
LEMMA ScanTo ==
  ASSUME NEW r, "at" \in DOMAIN r, NEW p, NEW n
  PROVE  /\ "at" \in DOMAIN [r EXCEPT !.at = p] /\ [r EXCEPT !.at = p].at = p
         /\ "at" \in DOMAIN [r EXCEPT !.at = p, !.answer = n]
         /\ [r EXCEPT !.at = p, !.answer = n].at = p
  OBVIOUS

LEMMA ScanNext == ASSUME ScanInv, Scan!Next PROVE ScanInv'
  <1> USE DEF ScanInv, ScanKept, ScanGoesOn, ScanResults
  <1>1. ASSUME NEW async, NEW multi, Scan!ScanNetworks(async, multi) PROVE ScanInv'
    BY <1>1 DEF Scan!ScanNetworks, Scan!ScanDelete, Scan!Idle, Scan!ghosts
  <1>2. CASE Scan!DriverStart BY <1>2 DEF Scan!DriverStart, Scan!Return, Scan!shared, Scan!ghosts
  <1>3. CASE Scan!Stamp BY <1>3 DEF Scan!Stamp, Scan!ghosts
  <1>4. CASE Scan!Mark
    <2>1. /\ "at" \in DOMAIN scanCall'
          /\ \/ /\ scanCall.at = "clear" /\ scanCall'.at = "mark"
                /\ scanBits' = scanBits \ {"done"}
             \/ /\ scanCall.at = "mark" /\ scanCall'.at \in {"idle", "wait"}
                /\ scanBits' = scanBits \cup {"scanning"}
      BY <1>4, ScanTo DEF Scan!Mark, Scan!Return
    <2>2. UNCHANGED <<count, scanResult, radio, survey, scanTask, givenUp, scanLeaked>>
      BY <1>4 DEF Scan!Mark, Scan!ghosts
    <2> QED BY <2>1, <2>2
  <1>5. CASE Scan!Wait
    <2>1. /\ "at" \in DOMAIN scanCall' /\ scanCall.at = "wait"
          /\ scanCall'.at = "idle" \/ ("done" \in scanBits /\ scanCall'.at = "pick")
      <3> DEFINE p == IF scanCall.multi THEN "pick" ELSE "idle"
      <3>1. IF "done" \in scanBits THEN scanCall' = [scanCall EXCEPT !.at = p, !.answer = count]
            ELSE scanCall' = [scanCall EXCEPT !.at = "idle", !.answer = Scan!Failed]
        BY <1>5 DEF Scan!Wait, Scan!Return
      <3>2. p \in {"pick", "idle"} /\ scanCall.at = "wait" BY <1>5 DEF Scan!Wait
      <3> HIDE DEF p
      <3> QED BY <3>1, <3>2, ScanTo
    <2>2. UNCHANGED <<scanBits, count, scanResult, radio, survey, scanTask, givenUp, scanLeaked>>
      BY <1>5 DEF Scan!Wait, Scan!shared, Scan!ghosts
    <2>3. ASSUME ~givenUp PROVE ScanKept' /\ ScanResults' BY <2>1, <2>2, <2>3
    <2>4. ~givenUp' => ~givenUp BY <2>2
    <2> QED BY <2>1, <2>3, <2>4
  <1>6. CASE Scan!Pick BY <1>6 DEF Scan!Pick, Scan!ScanDelete, Scan!Idle, Scan!ghosts
  <1>7. CASE Scan!ScanComplete BY <1>7 DEF Scan!ScanComplete, Scan!Return
  <1>8. CASE Scan!Delete BY <1>8 DEF Scan!Delete, Scan!ScanDelete, Scan!ghosts
  <1>9. CASE Scan!Pass \/ Scan!Found
    BY <1>9 DEF Scan!Pass, Scan!Found, Scan!shared, Scan!ghosts
  <1>10. CASE Scan!DoneCount BY <1>10 DEF Scan!DoneCount, Scan!ghosts
  <1>11. CASE Scan!DoneRecords BY <1>11 DEF Scan!DoneRecords
  <1>12. CASE Scan!DoneBits BY <1>12 DEF Scan!DoneBits
  <1> QED
    BY <1>1, <1>2, <1>3, <1>4, <1>5, <1>6, <1>7, <1>8, <1>9, <1>10, <1>11, <1>12
    DEF Scan!Next, Scan!Program, Scan!Handler

LEMMA ScanStands == ASSUME ScanInv, UNCHANGED scanVars PROVE ScanInv'
  BY DEF scanVars, ScanInv, ScanKept, ScanGoesOn, ScanResults

-----------------------------------------------------------------------------
(* What run() joins. *)

\* What run() picks.  A network is usable if its first entry in the list can open it.
ScanUsable(net) ==
    \E k \in 1 .. Len(list) : /\ list[k].ssid = net.ssid
                              /\ \A j \in 1 .. (k - 1) : list[j].ssid # list[k].ssid
                              /\ net.open \/ list[k].pass
LEMMA BetterIs ==
  ASSUME Len(list) \in Nat, list \in Seq({list[k] : k \in 1 .. Len(list)}), NEW best, NEW net
  PROVE  Scan!Better(best, net) <=> ScanUsable(net) /\ \A b \in best : net.rssi > b.rssi
  <1>1. DOMAIN list = 1 .. Len(list) OBVIOUS
  <1>2. ASSUME NEW k \in 1 .. Len(list), list[k].ssid = net.ssid
        PROVE  (\A j \in 1 .. (k - 1) : list[j].ssid # net.ssid)
                 <=> \A j \in Scan!Entries(net) : k <= j
    <2>1. \A j \in 1 .. Len(list) : j \in 1 .. (k - 1) <=> ~(k <= j)
      <3> SUFFICES ASSUME NEW j \in 1 .. Len(list) PROVE j \in 1 .. (k - 1) <=> ~(k <= j) OBVIOUS
      <3>1. j \in Nat /\ j >= 1 /\ k \in Nat OBVIOUS
      <3> QED BY <3>1
    <2>2. \A j \in 1 .. (k - 1) : j \in 1 .. Len(list) OBVIOUS
    <2>3. \A j : j \in Scan!Entries(net) <=> j \in 1 .. Len(list) /\ list[j].ssid = net.ssid
      BY <1>1 DEF Scan!Entries
    <2> QED BY <2>1, <2>2, <2>3
  <1>3. ScanUsable(net) <=> Scan!Opens(net)
    <2>1. \A k \in 1 .. Len(list) : k \in Scan!Entries(net) <=> list[k].ssid = net.ssid
      BY <1>1 DEF Scan!Entries
    <2>2. \A k \in Scan!Entries(net) : k \in 1 .. Len(list) /\ list[k].ssid = net.ssid
      BY <1>1 DEF Scan!Entries
    <2>3. ASSUME ScanUsable(net) PROVE Scan!Opens(net)
      <3>1. PICK k \in 1 .. Len(list) :
               /\ list[k].ssid = net.ssid
               /\ \A j \in 1 .. (k - 1) : list[j].ssid # list[k].ssid
               /\ net.open \/ list[k].pass
        BY <2>3 DEF ScanUsable
      <3>2. \A j \in Scan!Entries(net) : k <= j BY <3>1, <1>2
      <3> QED BY <3>1, <3>2, <2>1 DEF Scan!Opens
    <2>4. ASSUME Scan!Opens(net) PROVE ScanUsable(net)
      <3>1. PICK k \in Scan!Entries(net) :
               /\ \A j \in Scan!Entries(net) : k <= j
               /\ net.open \/ list[k].pass
        BY <2>4 DEF Scan!Opens
      <3>2. k \in 1 .. Len(list) /\ list[k].ssid = net.ssid BY <2>2
      <3>3. \A j \in 1 .. (k - 1) : list[j].ssid # net.ssid BY <3>1, <3>2, <1>2
      <3> QED BY <3>1, <3>2, <3>3 DEF ScanUsable
    <2> QED BY <2>3, <2>4
  <1> QED BY <1>3 DEF Scan!Better

\* The best of the first n.
BestTurn(best, net) == IF Scan!Better(best, net) THEN {net} ELSE best
BestFrom(nets, best, N) ==
    best = [n \in 0 .. N |-> IF n = 0 THEN {} ELSE BestTurn(best[n - 1], nets[n])]
Strongest(nets, n, got) ==
    \/ got = {} /\ \A i \in 1 .. n : ~ScanUsable(nets[i])
    \/ \E b \in 1 .. n : /\ got = {nets[b]} /\ ScanUsable(nets[b])
                         /\ \A i \in 1 .. n : ScanUsable(nets[i]) => nets[i].rssi <= nets[b].rssi

LEMMA BestExists ==
  ASSUME NEW nets, NEW N \in Nat
  PROVE  \E best : BestFrom(nets, best, N)
  <1> DEFINE S == {n \in Nat : \E best : BestFrom(nets, best, n)}
  <1>1. 0 \in S
    <2>1. BestFrom(nets, [n \in 0 .. 0 |-> {}], 0) BY DEF BestFrom
    <2> QED BY <2>1
  <1>2. \A n \in S : n + 1 \in S
    <2> SUFFICES ASSUME NEW n \in S PROVE \E best : BestFrom(nets, best, n + 1)
      OBVIOUS
    <2>1. PICK f : BestFrom(nets, f, n) OBVIOUS
    <2> DEFINE e == BestTurn(f[n], nets[n + 1])
               g == [k \in 0 .. n + 1 |-> IF k = n + 1 THEN e ELSE f[k]]
    <2>2. /\ g[n + 1] = e /\ \A k \in 0 .. n : g[k] = f[k]
      OBVIOUS
    <2>3. /\ f[0] = {} /\ \A k \in 1 .. n : f[k] = BestTurn(f[k - 1], nets[k])
      <3>1. f = [k \in 0 .. n |-> IF k = 0 THEN {} ELSE BestTurn(f[k - 1], nets[k])]
        BY <2>1 DEF BestFrom
      <3>2. f[0] = {} BY <3>1
      <3>3. ASSUME NEW k \in 1 .. n PROVE f[k] = BestTurn(f[k - 1], nets[k])
        <4>1. k \in 0 .. n /\ k # 0 OBVIOUS
        <4> QED BY <3>1, <4>1
      <3> QED BY <3>2, <3>3
    <2>4. g = [k \in 0 .. n + 1 |-> g[k]] OBVIOUS
    <2> HIDE DEF g, e
    <2>5. \A k \in 0 .. n + 1 : g[k] = IF k = 0 THEN {} ELSE BestTurn(g[k - 1], nets[k])
      <3> SUFFICES ASSUME NEW k \in 0 .. n + 1
                   PROVE  g[k] = IF k = 0 THEN {} ELSE BestTurn(g[k - 1], nets[k])
        OBVIOUS
      <3>1. CASE k = 0 BY <3>1, <2>2, <2>3
      <3>2. CASE k = n + 1 BY <3>2, <2>2 DEF e
      <3>3. CASE k \in 1 .. n
        <4>1. g[k] = f[k] /\ g[k - 1] = f[k - 1] BY <3>3, <2>2
        <4> QED BY <4>1, <3>3, <2>3
      <3> QED BY <3>1, <3>2, <3>3
    <2>6. BestFrom(nets, g, n + 1) BY <2>4, <2>5 DEF BestFrom
    <2> QED BY <2>6
  <1> HIDE DEF S
  <1>3. S \in SUBSET Nat BY DEF S
  <1>4. N \in S BY <1>1, <1>2, <1>3, SetInduction
  <1> QED BY <1>4 DEF S

LEMMA BestIs ==
  ASSUME NEW nets, Len(nets) \in Nat
  PROVE  \E best : BestFrom(nets, best, Len(nets)) /\ Scan!BestOf(nets) = best[Len(nets)]
  <1>1. \E best : BestFrom(nets, best, Len(nets)) BY BestExists
  <1> QED BY <1>1 DEF Scan!BestOf, BestFrom, BestTurn

LEMMA BestIsStrongest ==
  ASSUME NEW nets, Len(nets) \in Nat, \A i \in 1 .. Len(nets) : nets[i].rssi \in Int,
         Len(list) \in Nat, list \in Seq({list[k] : k \in 1 .. Len(list)})
  PROVE  Strongest(nets, Len(nets), Scan!BestOf(nets))
  <1>1. PICK f : BestFrom(nets, f, Len(nets)) /\ Scan!BestOf(nets) = f[Len(nets)]
    BY BestIs
  <1>2. /\ f[0] = {} /\ \A k \in 1 .. Len(nets) : f[k] = BestTurn(f[k - 1], nets[k])
    <2>1. f = [k \in 0 .. Len(nets) |-> IF k = 0 THEN {} ELSE BestTurn(f[k - 1], nets[k])]
      BY <1>1 DEF BestFrom
    <2>2. f[0] = {} BY <2>1
    <2>3. ASSUME NEW k \in 1 .. Len(nets) PROVE f[k] = BestTurn(f[k - 1], nets[k])
      <3>1. k \in 0 .. Len(nets) /\ k # 0 OBVIOUS
      <3> QED BY <2>1, <3>1
    <2> QED BY <2>2, <2>3
  <1> DEFINE T == {n \in Nat : n <= Len(nets) => Strongest(nets, n, f[n])}
  <1>3. 0 \in T BY <1>2 DEF Strongest
  <1>4. \A n \in T : n + 1 \in T
    <2> SUFFICES ASSUME NEW n \in T, n + 1 <= Len(nets) PROVE Strongest(nets, n + 1, f[n + 1])
      OBVIOUS
    <2>1. n \in Nat /\ n + 1 \in 1 .. Len(nets) /\ n <= Len(nets) OBVIOUS
    <2>2. Strongest(nets, n, f[n]) BY <2>1
    <2> HIDE DEF T
    <2>3. f[n + 1] = BestTurn(f[n], nets[n + 1]) BY <1>2, <2>1
    <2>4. nets[n + 1].rssi \in Int /\ \A i \in 1 .. n : nets[i].rssi \in Int BY <2>1
    <2>5. \A i \in 1 .. n + 1 : i \in 1 .. n \/ i = n + 1 BY <2>1
    <2>6. n + 1 \in 1 .. n + 1 /\ \A i \in 1 .. n : i \in 1 .. n + 1 BY <2>1
    <2>7. Scan!Better(f[n], nets[n + 1]) <=>
            ScanUsable(nets[n + 1]) /\ \A b \in f[n] : nets[n + 1].rssi > b.rssi
      BY BetterIs
    <2>8. CASE Scan!Better(f[n], nets[n + 1])
      <3>1. f[n + 1] = {nets[n + 1]} BY <2>3, <2>8 DEF BestTurn
      <3>2. ScanUsable(nets[n + 1]) BY <2>7, <2>8
      <3>3. \A i \in 1 .. n : ScanUsable(nets[i]) => nets[i].rssi <= nets[n + 1].rssi
        <4> SUFFICES ASSUME NEW i \in 1 .. n, ScanUsable(nets[i])
                     PROVE  nets[i].rssi <= nets[n + 1].rssi
          OBVIOUS
        <4>1. PICK b \in 1 .. n : f[n] = {nets[b]} /\ nets[i].rssi <= nets[b].rssi
          BY <2>2 DEF Strongest
        <4>2. nets[n + 1].rssi > nets[b].rssi BY <4>1, <2>7, <2>8
        <4> QED BY <4>1, <4>2, <2>4
      <3>4. nets[n + 1].rssi <= nets[n + 1].rssi BY <2>4
      <3>5. \A i \in 1 .. n + 1 : ScanUsable(nets[i]) => nets[i].rssi <= nets[n + 1].rssi
        BY <3>3, <3>4, <2>5
      <3> QED BY <3>1, <3>2, <3>5, <2>6 DEF Strongest
    <2>9. CASE ~Scan!Better(f[n], nets[n + 1])
      <3>1. f[n + 1] = f[n] BY <2>3, <2>9 DEF BestTurn
      <3>2. CASE f[n] = {} /\ \A i \in 1 .. n : ~ScanUsable(nets[i])
        <4>1. ~ScanUsable(nets[n + 1]) BY <3>2, <2>7, <2>9
        <4> QED BY <4>1, <3>1, <3>2, <2>5 DEF Strongest
      <3>3. CASE ~(f[n] = {} /\ \A i \in 1 .. n : ~ScanUsable(nets[i]))
        <4>1. PICK b \in 1 .. n :
                 /\ f[n] = {nets[b]} /\ ScanUsable(nets[b])
                 /\ \A i \in 1 .. n : ScanUsable(nets[i]) => nets[i].rssi <= nets[b].rssi
          BY <3>3, <2>2 DEF Strongest
        <4>2. ScanUsable(nets[n + 1]) => nets[n + 1].rssi <= nets[b].rssi
          <5>1. ScanUsable(nets[n + 1]) => ~(nets[n + 1].rssi > nets[b].rssi)
            BY <4>1, <2>7, <2>9
          <5>2. nets[b].rssi \in Int BY <2>4
          <5> QED BY <5>1, <5>2, <2>4
        <4>3. \A i \in 1 .. n + 1 : ScanUsable(nets[i]) => nets[i].rssi <= nets[b].rssi
          BY <4>1, <4>2, <2>5
        <4> QED BY <4>1, <4>3, <3>1, <2>6 DEF Strongest
      <3> QED BY <3>2, <3>3
    <2> QED BY <2>8, <2>9
  <1> HIDE DEF T
  <1>5. T \in SUBSET Nat BY DEF T
  <1>6. Len(nets) \in T BY <1>3, <1>4, <1>5, SetInduction
  <1> QED BY <1>6, <1>1 DEF T

\* run() reads the count that scanNetworks() returned.
ScanFound == Surveys \cup {<<>>}
ScanCallIs(r) == r = [at |-> r.at, async |-> r.async, multi |-> r.multi, answer |-> r.answer]
ScanPicks ==
    /\ ScanCallIs(scanCall)
    /\ survey \in ScanFound /\ scanResult \in ScanFound /\ list \in Lists
    /\ ~givenUp /\ scanCall.at = "pick" => scanCall.answer = count

LEMMA ScanPicksInit == Scan!Init => ScanPicks
  BY DEF Scan!Init, Scan!Idle, ScanPicks, ScanFound, ScanCallIs

ScanCallAt(r, p) == [r EXCEPT !.at = p]
ScanCallEnds(r, p, n) == [r EXCEPT !.at = p, !.answer = n]
LEMMA ScanCallGoes ==
  ASSUME NEW r, ScanCallIs(r), NEW p, NEW n
  PROVE  /\ ScanCallIs(ScanCallAt(r, p)) /\ ScanCallAt(r, p).at = p
         /\ ScanCallIs(ScanCallEnds(r, p, n)) /\ ScanCallEnds(r, p, n).at = p
         /\ ScanCallEnds(r, p, n).answer = n
  <1> DEFINE a == [r EXCEPT !.at = p]
             b == [a EXCEPT !.answer = n]
  <1>1. r = [at |-> r.at, async |-> r.async, multi |-> r.multi, answer |-> r.answer]
    BY DEF ScanCallIs
  <1>2. a = [at |-> p, async |-> r.async, multi |-> r.multi, answer |-> r.answer]
    BY <1>1
  <1>3. ScanCallEnds(r, p, n) = b BY DEF ScanCallEnds
  <1>4. ScanCallAt(r, p) = a BY DEF ScanCallAt
  <1> HIDE DEF a
  <1>5. b = [at |-> p, async |-> r.async, multi |-> r.multi, answer |-> n] BY <1>2
  <1> QED BY <1>2, <1>3, <1>4, <1>5 DEF ScanCallIs

LEMMA ScanPicksNext == ASSUME ScanInv, ScanPicks, Scan!Next PROVE ScanPicks'
  <1>0. /\ ScanCallIs(scanCall) /\ survey \in ScanFound /\ scanResult \in ScanFound /\ list \in Lists
        /\ <<>> \in ScanFound
    BY DEF ScanPicks, ScanFound
  <1>a. ASSUME ScanCallIs(scanCall'), survey' \in ScanFound, scanResult' \in ScanFound, UNCHANGED list,
               scanCall'.at # "pick" \/ givenUp' \/ scanCall'.answer = count'
        PROVE  ScanPicks'
    BY <1>0, <1>a DEF ScanPicks
  <1>1. ASSUME NEW async, NEW multi, Scan!ScanNetworks(async, multi) PROVE ScanPicks'
    <2>1. ScanCallIs(scanCall') /\ scanCall'.at # "pick"
      BY <1>1 DEF Scan!ScanNetworks, Scan!Idle, ScanCallIs
    <2>2. UNCHANGED <<survey, list>> /\ scanResult' \in {scanResult, <<>>}
      BY <1>1 DEF Scan!ScanNetworks, Scan!ScanDelete
    <2> QED BY <2>1, <2>2, <1>a, <1>0
  <1>2. CASE Scan!DriverStart
    <2>0. \/ scanCall' = ScanCallAt(scanCall, "stamp")
          \/ scanCall' = ScanCallEnds(scanCall, "idle", Scan!Failed)
      BY <1>2 DEF Scan!DriverStart, Scan!Return, ScanCallAt, ScanCallEnds
    <2>1. ScanCallIs(scanCall') /\ scanCall'.at \in {"stamp", "idle"}
      BY <2>0, <1>0, ScanCallGoes
    <2>2. UNCHANGED <<survey, list, scanResult>>
      BY <1>2 DEF Scan!DriverStart, Scan!shared
    <2> QED BY <2>1, <2>2, <1>a, <1>0
  <1>3. CASE Scan!Stamp
    <2>0. scanCall' = ScanCallAt(scanCall, "clear") BY <1>3 DEF Scan!Stamp, ScanCallAt, ScanCallEnds
    <2>1. ScanCallIs(scanCall') /\ scanCall'.at = "clear" BY <2>0, <1>0, ScanCallGoes
    <2>2. UNCHANGED <<survey, list, scanResult>> BY <1>3 DEF Scan!Stamp
    <2> QED BY <2>1, <2>2, <1>a, <1>0
  <1>4. CASE Scan!Mark
    <2>0. \/ scanCall' = ScanCallAt(scanCall, "mark")
          \/ scanCall' = ScanCallAt(scanCall, "wait")
          \/ scanCall' = ScanCallEnds(scanCall, "idle", Scan!Running)
      BY <1>4 DEF Scan!Mark, Scan!Return, ScanCallAt, ScanCallEnds
    <2>1. ScanCallIs(scanCall') /\ scanCall'.at \in {"mark", "wait", "idle"}
      BY <2>0, <1>0, ScanCallGoes
    <2>2. UNCHANGED <<survey, list, scanResult>> BY <1>4 DEF Scan!Mark
    <2> QED BY <2>1, <2>2, <1>a, <1>0
  <1>5. CASE Scan!Wait
    <2> DEFINE p == IF scanCall.multi THEN "pick" ELSE "idle"
    <2>1. \/ scanCall' = ScanCallEnds(scanCall, p, count)
          \/ scanCall' = ScanCallEnds(scanCall, "idle", Scan!Failed)
      BY <1>5 DEF Scan!Wait, Scan!Return, ScanCallAt, ScanCallEnds
    <2> HIDE DEF p
    <2>2. ScanCallIs(scanCall') /\ (scanCall'.answer = count \/ scanCall'.at = "idle")
      BY <2>1, <1>0, ScanCallGoes
    <2>3. UNCHANGED <<survey, list, scanResult, count>> BY <1>5 DEF Scan!Wait, Scan!shared
    <2> QED BY <2>2, <2>3, <1>a, <1>0
  <1>6. CASE Scan!Pick
    <2>1. ScanCallIs(scanCall') /\ scanCall'.at = "idle" BY <1>6 DEF Scan!Pick, Scan!Idle, ScanCallIs
    <2>2. UNCHANGED <<survey, list>> /\ scanResult' = <<>> BY <1>6 DEF Scan!Pick, Scan!ScanDelete
    <2> QED BY <2>1, <2>2, <1>a, <1>0
  <1>7. CASE Scan!ScanComplete
    <2>0. \E n : scanCall' = ScanCallEnds(scanCall, "idle", n)
      BY <1>7 DEF Scan!ScanComplete, Scan!Return, ScanCallAt, ScanCallEnds
    <2>1. ScanCallIs(scanCall') /\ scanCall'.at = "idle" BY <2>0, <1>0, ScanCallGoes
    <2>2. UNCHANGED <<survey, list, scanResult>> BY <1>7 DEF Scan!ScanComplete
    <2> QED BY <2>1, <2>2, <1>a, <1>0
  <1>b. ASSUME UNCHANGED <<scanCall, list, givenUp>>, survey' \in ScanFound, scanResult' \in ScanFound,
               scanCall.at # "pick" \/ givenUp \/ count' = count
        PROVE  ScanPicks'
    BY <1>0, <1>b DEF ScanPicks
  <1>8. CASE Scan!Delete
    <2>1. scanCall.at = "idle" /\ UNCHANGED <<scanCall, survey, list, givenUp>> /\ scanResult' = <<>>
      BY <1>8 DEF Scan!Delete, Scan!ScanDelete, Scan!ghosts
    <2> QED BY <2>1, <1>b, <1>0
  <1>9. CASE Scan!Pass \/ Scan!DoneBits
    <2>1. UNCHANGED <<scanCall, survey, list, givenUp, scanResult, count>>
      BY <1>9 DEF Scan!Pass, Scan!DoneBits, Scan!ghosts
    <2> QED BY <2>1, <1>b, <1>0
  <1>10. CASE Scan!Found
    <2>1. UNCHANGED <<scanCall, list, givenUp, scanResult, count>> /\ survey' \in ScanFound
      BY <1>10 DEF Scan!Found, Scan!shared, Scan!ghosts, ScanFound
    <2> QED BY <2>1, <1>b, <1>0
  <1>11. CASE Scan!DoneCount
    <2>1. UNCHANGED <<scanCall, survey, list, givenUp, scanResult>> /\ radio = "posted"
      BY <1>11 DEF Scan!DoneCount, Scan!ghosts
    <2>2. scanCall.at # "pick" \/ givenUp BY <2>1 DEF ScanInv, ScanResults
    <2> QED BY <2>1, <2>2, <1>b, <1>0
  <1>12. CASE Scan!DoneRecords
    <2>1. /\ UNCHANGED <<scanCall, list, givenUp>> /\ scanResult' = survey /\ survey' = <<>>
          /\ scanTask = "records"
      BY <1>12 DEF Scan!DoneRecords
    <2>2. scanCall.at # "pick" \/ givenUp BY <2>1 DEF ScanInv, ScanResults
    <2>3. survey' \in ScanFound BY <2>1 DEF ScanFound
    <2> QED BY <2>1, <2>2, <2>3, <1>b, <1>0
  <1> QED
    BY <1>1, <1>2, <1>3, <1>4, <1>5, <1>6, <1>7, <1>8, <1>9, <1>10, <1>11, <1>12
    DEF Scan!Next, Scan!Program, Scan!Handler

LEMMA ScanPicksStand == ASSUME ScanPicks, UNCHANGED scanVars PROVE ScanPicks'
  BY DEF scanVars, ScanPicks

\* run() looks at every network found, so what it picks is the strongest.
LEMMA ScanJoins ==
  ASSUME ScanInv, ScanPicks, Scan!Pick, ~givenUp
  PROVE  Strongest(scanResult, count, chosen')
  <1>1. scanResult \in Seq({scanResult[i] : i \in 1 .. Len(scanResult)})
        /\ \A i \in 1 .. Len(scanResult) : scanResult[i].rssi \in Int
    <2>1. CASE scanResult = <<>> BY <2>1
    <2>2. CASE scanResult \in Surveys BY <2>2, LibraryNetworks
    <2> QED BY <2>1, <2>2 DEF ScanPicks, ScanFound
  <1>2. Len(scanResult) \in Nat BY <1>1
  <1>3. Len(list) \in Nat /\ list \in Seq({list[k] : k \in 1 .. Len(list)})
    <2>1. list \in Seq({list[k] : k \in 1 .. Len(list)}) BY LibraryNetworks DEF ScanPicks
    <2> QED BY <2>1
  <1>4. count \in {0, Len(scanResult)} /\ scanCall.answer = count
    BY DEF ScanInv, ScanResults, ScanPicks, Scan!Pick
  <1> DEFINE nets == SubSeq(scanResult, 1, count)
  <1>5. chosen' = Scan!BestOf(nets)
    <2>1. PICK n \in {scanCall.answer, count, Len(scanResult)} :
             /\ \A m \in {scanCall.answer, count, Len(scanResult)} : n <= m
             /\ chosen' = Scan!BestOf(SubSeq(scanResult, 1, n))
      BY DEF Scan!Pick
    <2>2. n = count BY <2>1, <1>2, <1>4
    <2> QED BY <2>1, <2>2
  <1>6. Len(nets) = count /\ \A i \in 1 .. count : nets[i] = scanResult[i]
    BY <1>1, <1>2, <1>4
  <1>7. count \in Nat /\ \A i \in 1 .. count : nets[i].rssi \in Int
    BY <1>1, <1>2, <1>4, <1>6
  <1> HIDE DEF nets
  <1>8. Strongest(nets, count, chosen')
    <2>1. Len(nets) \in Nat /\ \A i \in 1 .. Len(nets) : nets[i].rssi \in Int BY <1>6, <1>7
    <2>2. Strongest(nets, Len(nets), Scan!BestOf(nets)) BY <2>1, <1>3, BestIsStrongest
    <2> QED BY <2>2, <1>5, <1>6
  <1> QED BY <1>6, <1>8 DEF Strongest

LEMMA ScanActs ==
  ASSUME ScanInv, ScanPicks, Scan!Pick, ~givenUp
  PROVE  LET Usable == {i \in 1 .. count :
                \E k \in 1 .. Len(list) :
                    /\ list[k].ssid = scanResult[i].ssid
                    /\ \A j \in 1 .. (k - 1) : list[j].ssid # list[k].ssid
                    /\ scanResult[i].open \/ list[k].pass}
         IN  IF Usable = {} THEN chosen' = {}
             ELSE \E b \in Usable : /\ chosen' = {scanResult[b]}
                                    /\ \A i \in Usable : scanResult[i].rssi <= scanResult[b].rssi
  <1> DEFINE Usable == {i \in 1 .. count : ScanUsable(scanResult[i])}
  <1>1. Strongest(scanResult, count, chosen') BY ScanJoins
  <1>2. IF Usable = {} THEN chosen' = {}
        ELSE \E b \in Usable : /\ chosen' = {scanResult[b]}
                               /\ \A i \in Usable : scanResult[i].rssi <= scanResult[b].rssi
    BY <1>1 DEF Strongest
  <1> QED BY <1>2 DEF ScanUsable

-----------------------------------------------------------------------------
(* Event callbacks.  removeEvent() keeps a part of the list in its order, so while nothing *)
(* that a walk has passed is erased, what it has not passed stays before it.               *)

\* What the loop of removeEvent() has kept of the first n entries.
EraseFrom(entries, meant, seen, N) ==
    seen = [n \in 0 .. N |->
              IF n = 0 THEN [kept |-> <<>>, skip |-> FALSE]
              ELSE Callbacks!EraseStep(seen[n - 1], entries[n], meant)]

LEMMA EraseExists ==
  ASSUME NEW entries, NEW meant, NEW N \in Nat
  PROVE  \E seen : EraseFrom(entries, meant, seen, N)
  <1> DEFINE S == {n \in Nat : \E seen : EraseFrom(entries, meant, seen, n)}
  <1>1. 0 \in S
    <2>1. EraseFrom(entries, meant, [n \in 0 .. 0 |-> [kept |-> <<>>, skip |-> FALSE]], 0)
      BY DEF EraseFrom
    <2> QED BY <2>1
  <1>2. \A n \in S : n + 1 \in S
    <2> SUFFICES ASSUME NEW n \in S PROVE \E seen : EraseFrom(entries, meant, seen, n + 1)
      OBVIOUS
    <2>1. PICK f : EraseFrom(entries, meant, f, n) OBVIOUS
    <2> DEFINE e == Callbacks!EraseStep(f[n], entries[n + 1], meant)
               g == [k \in 0 .. n + 1 |-> IF k = n + 1 THEN e ELSE f[k]]
    <2>2. /\ g[n + 1] = e /\ \A k \in 0 .. n : g[k] = f[k]
      OBVIOUS
    <2>3. /\ f[0] = [kept |-> <<>>, skip |-> FALSE]
          /\ \A k \in 1 .. n : f[k] = Callbacks!EraseStep(f[k - 1], entries[k], meant)
      <3>1. f = [k \in 0 .. n |->
                  IF k = 0 THEN [kept |-> <<>>, skip |-> FALSE]
                  ELSE Callbacks!EraseStep(f[k - 1], entries[k], meant)]
        BY <2>1 DEF EraseFrom
      <3>2. f[0] = [kept |-> <<>>, skip |-> FALSE] BY <3>1
      <3>3. ASSUME NEW k \in 1 .. n
            PROVE  f[k] = Callbacks!EraseStep(f[k - 1], entries[k], meant)
        <4>1. k \in 0 .. n /\ k # 0 OBVIOUS
        <4> QED BY <3>1, <4>1
      <3> QED BY <3>2, <3>3
    <2>4. g = [k \in 0 .. n + 1 |-> g[k]] OBVIOUS
    <2> HIDE DEF g, e
    <2>5. \A k \in 0 .. n + 1 :
             g[k] = IF k = 0 THEN [kept |-> <<>>, skip |-> FALSE]
                    ELSE Callbacks!EraseStep(g[k - 1], entries[k], meant)
      <3> SUFFICES ASSUME NEW k \in 0 .. n + 1
                   PROVE  g[k] = IF k = 0 THEN [kept |-> <<>>, skip |-> FALSE]
                                 ELSE Callbacks!EraseStep(g[k - 1], entries[k], meant)
        OBVIOUS
      <3>1. CASE k = 0 BY <3>1, <2>2, <2>3
      <3>2. CASE k = n + 1 BY <3>2, <2>2 DEF e
      <3>3. CASE k \in 1 .. n
        <4>1. g[k] = f[k] /\ g[k - 1] = f[k - 1] BY <3>3, <2>2
        <4> QED BY <4>1, <3>3, <2>3
      <3> QED BY <3>1, <3>2, <3>3
    <2>6. EraseFrom(entries, meant, g, n + 1) BY <2>4, <2>5 DEF EraseFrom
    <2> QED BY <2>6
  <1> HIDE DEF S
  <1>3. S \in SUBSET Nat BY DEF S
  <1>4. N \in S BY <1>1, <1>2, <1>3, SetInduction
  <1> QED BY <1>4 DEF S

LEMMA EraseIs ==
  ASSUME NEW entries, NEW meant, Len(entries) \in Nat
  PROVE  \E seen : /\ EraseFrom(entries, meant, seen, Len(entries))
                   /\ Callbacks!EraseLoop(entries, meant) = seen[Len(entries)].kept
  <1>1. \E seen : EraseFrom(entries, meant, seen, Len(entries)) BY EraseExists
  <1> QED BY <1>1 DEF Callbacks!EraseLoop, EraseFrom

\* What is kept is a part of the list in the list's order; steps tells the places.
Ascends(steps, m, n) ==
    /\ steps \in [1 .. m -> 1 .. n]
    /\ \A j, k \in 1 .. m : j < k => steps[j] < steps[k]
KeptOf(entries, kept, n) ==
    \E steps : /\ Ascends(steps, Len(kept), n)
               /\ \A j \in 1 .. Len(kept) : kept[j] = entries[steps[j]]

LEMMA KeptMore ==
  ASSUME NEW S, NEW entries, NEW kept \in Seq(S), NEW n \in Nat, KeptOf(entries, kept, n),
         entries[n + 1] \in S
  PROVE  KeptOf(entries, kept, n + 1) /\ KeptOf(entries, Append(kept, entries[n + 1]), n + 1)
  <1>0. Len(kept) \in Nat OBVIOUS
  <1>1. PICK f : Ascends(f, Len(kept), n) /\ \A j \in 1 .. Len(kept) : kept[j] = entries[f[j]]
    BY DEF KeptOf
  <1>2. KeptOf(entries, kept, n + 1)
    <2>1. Ascends(f, Len(kept), n + 1) BY <1>1, <1>0 DEF Ascends
    <2> QED BY <2>1, <1>1 DEF KeptOf
  <1>3. KeptOf(entries, Append(kept, entries[n + 1]), n + 1)
    <2> DEFINE m == Len(kept)
               g == [j \in 1 .. m + 1 |-> IF j = m + 1 THEN n + 1 ELSE f[j]]
               more == Append(kept, entries[n + 1])
    <2>1. Len(more) = m + 1 /\ more[m + 1] = entries[n + 1] /\ \A j \in 1 .. m : more[j] = kept[j]
      OBVIOUS
    <2>2. g[m + 1] = n + 1 /\ \A j \in 1 .. m : g[j] = f[j] BY <1>0
    <2>3. f \in [1 .. m -> 1 .. n] /\ \A j, k \in 1 .. m : j < k => f[j] < f[k]
      BY <1>1 DEF Ascends
    <2>4. g \in [1 .. m + 1 -> 1 .. n + 1] BY <2>3, <1>0
    <2> HIDE DEF g, more
    <2>5. \A j, k \in 1 .. m + 1 : j < k => g[j] < g[k]
      <3> SUFFICES ASSUME NEW j \in 1 .. m + 1, NEW k \in 1 .. m + 1, j < k
                   PROVE  g[j] < g[k]
        OBVIOUS
      <3>1. j \in 1 .. m /\ g[j] = f[j] /\ f[j] \in 1 .. n BY <2>2, <2>3, <1>0
      <3>2. CASE k = m + 1 BY <3>1, <3>2, <2>2
      <3>3. CASE k \in 1 .. m BY <3>1, <3>3, <2>2, <2>3
      <3> QED BY <3>2, <3>3, <1>0
    <2>6. \A j \in 1 .. m + 1 : more[j] = entries[g[j]]
      <3> SUFFICES ASSUME NEW j \in 1 .. m + 1 PROVE more[j] = entries[g[j]] OBVIOUS
      <3>1. CASE j = m + 1 BY <3>1, <2>1, <2>2
      <3>2. CASE j \in 1 .. m BY <3>2, <2>1, <2>2, <1>1
      <3> QED BY <3>1, <3>2, <1>0
    <2>7. Ascends(g, Len(more), n + 1) BY <2>1, <2>4, <2>5 DEF Ascends
    <2>8. \A j \in 1 .. Len(more) : more[j] = entries[g[j]] BY <2>1, <2>6
    <2>9. KeptOf(entries, more, n + 1) BY <2>7, <2>8 DEF KeptOf
    <2> QED BY <2>9 DEF more
  <1> QED BY <1>2, <1>3

LEMMA EraseKeeps ==
  ASSUME NEW S, NEW entries \in Seq(S), NEW meant
  PROVE  /\ Callbacks!EraseLoop(entries, meant) \in Seq(S)
         /\ KeptOf(entries, Callbacks!EraseLoop(entries, meant), Len(entries))
  <1>0. Len(entries) \in Nat OBVIOUS
  <1>1. PICK f : /\ EraseFrom(entries, meant, f, Len(entries))
                 /\ Callbacks!EraseLoop(entries, meant) = f[Len(entries)].kept
    BY <1>0, EraseIs
  <1>2. /\ f[0] = [kept |-> <<>>, skip |-> FALSE]
        /\ \A k \in 1 .. Len(entries) : f[k] = Callbacks!EraseStep(f[k - 1], entries[k], meant)
    <2>1. f = [n \in 0 .. Len(entries) |->
                 IF n = 0 THEN [kept |-> <<>>, skip |-> FALSE]
                 ELSE Callbacks!EraseStep(f[n - 1], entries[n], meant)]
      BY <1>1 DEF EraseFrom
    <2>2. f[0] = [kept |-> <<>>, skip |-> FALSE] BY <2>1, <1>0
    <2>3. ASSUME NEW k \in 1 .. Len(entries)
          PROVE  f[k] = Callbacks!EraseStep(f[k - 1], entries[k], meant)
      <3>1. k \in 0 .. Len(entries) /\ k # 0 BY <1>0
      <3> QED BY <2>1, <3>1
    <2> QED BY <2>2, <2>3
  <1> DEFINE T == {n \in Nat : n <= Len(entries) =>
                      f[n].kept \in Seq(S) /\ KeptOf(entries, f[n].kept, n)}
  <1>3. 0 \in T
    <2>1. f[0].kept = <<>> /\ <<>> \in Seq(S) /\ Len(<<>>) = 0 BY <1>2
    <2>2. Ascends(<<>>, 0, 0) BY DEF Ascends
    <2>3. KeptOf(entries, <<>>, 0) BY <2>2, <2>1 DEF KeptOf
    <2> QED BY <2>1, <2>3
  <1>4. \A n \in T : n + 1 \in T
    <2> SUFFICES ASSUME NEW n \in T, n + 1 <= Len(entries)
                 PROVE  f[n + 1].kept \in Seq(S) /\ KeptOf(entries, f[n + 1].kept, n + 1)
      OBVIOUS
    <2>1. n \in Nat /\ n + 1 \in 1 .. Len(entries) /\ n <= Len(entries) BY <1>0
    <2>2. f[n].kept \in Seq(S) /\ KeptOf(entries, f[n].kept, n) BY <2>1
    <2>3. entries[n + 1] \in S BY <2>1
    <2>4. f[n + 1] = Callbacks!EraseStep(f[n], entries[n + 1], meant) BY <1>2, <2>1
    <2>5. f[n + 1].kept = f[n].kept \/ f[n + 1].kept = Append(f[n].kept, entries[n + 1])
      BY <2>4 DEF Callbacks!EraseStep
    <2>6. Append(f[n].kept, entries[n + 1]) \in Seq(S) BY <2>2, <2>3
    <2>7. KeptOf(entries, f[n].kept, n + 1) /\ KeptOf(entries, Append(f[n].kept, entries[n + 1]), n + 1)
      BY <2>1, <2>2, <2>3, KeptMore
    <2> QED BY <2>2, <2>5, <2>6, <2>7
  <1> HIDE DEF T
  <1>5. T \in SUBSET Nat BY DEF T
  <1>6. Len(entries) \in T BY <1>0, <1>3, <1>4, <1>5, SetInduction
  <1> QED BY <1>0, <1>1, <1>6 DEF T

\* When all that a walk has passed stays, so does the place of what it has not passed.
LEMMA KeptPlaces ==
  ASSUME NEW S, NEW entries \in Seq(S), NEW kept \in Seq(S), KeptOf(entries, kept, Len(entries)),
         \A j, k \in DOMAIN entries : entries[j].id = entries[k].id => j = k,
         NEW i \in Nat,
         \A k \in DOMAIN entries : k < i => entries[k].id \in Callbacks!IdsOf(kept),
         NEW k \in DOMAIN entries, k >= i, entries[k].id \in Callbacks!IdsOf(kept)
  PROVE  \E j \in DOMAIN kept : j >= i /\ kept[j] = entries[k]
  <1> DEFINE m == Len(kept)
             n == Len(entries)
  <1>0. m \in Nat /\ n \in Nat /\ DOMAIN kept = 1 .. m /\ DOMAIN entries = 1 .. n OBVIOUS
  <1>1. PICK g : Ascends(g, m, n) /\ \A j \in 1 .. m : kept[j] = entries[g[j]] BY DEF KeptOf
  <1>2. g \in [1 .. m -> 1 .. n] /\ \A a, b \in 1 .. m : a < b => g[a] < g[b]
    BY <1>1 DEF Ascends
  <1> HIDE DEF m, n
  <1>3. \A p \in 1 .. n : entries[p].id \in Callbacks!IdsOf(kept) => \E a \in 1 .. m : g[a] = p
    <2> SUFFICES ASSUME NEW p \in 1 .. n, entries[p].id \in Callbacks!IdsOf(kept)
                 PROVE  \E a \in 1 .. m : g[a] = p
      OBVIOUS
    <2>1. PICK a \in 1 .. m : kept[a].id = entries[p].id BY DEF Callbacks!IdsOf, m
    <2>2. kept[a] = entries[g[a]] /\ g[a] \in 1 .. n BY <1>1, <1>2
    <2>3. g[a] = p BY <2>1, <2>2, <1>0
    <2> QED BY <2>3
  <1>4. PICK j \in 1 .. m : g[j] = k BY <1>0, <1>3
  <1>5. j >= i
    <2> SUFFICES ASSUME j < i PROVE FALSE BY <1>0
    <2> DEFINE T == {a \in 1 .. m : a < i /\ g[a] # a}
    <2>1. j \in T BY <1>4, <1>0
    <2>2. T \in SUBSET Nat BY <1>0
    <2> HIDE DEF T
    <2>3. PICK a \in T : \A b \in T : a <= b BY <2>1, <2>2, LeastExists
    <2>4. a \in 1 .. m /\ a < i /\ g[a] # a BY DEF T
    <2>5. \A b \in 1 .. m : b < a => g[b] = b
      <3> SUFFICES ASSUME NEW b \in 1 .. m, b < a, g[b] # b PROVE FALSE OBVIOUS
      <3>1. b \in T BY <2>4, <1>0 DEF T
      <3> QED BY <3>1, <2>3, <2>4, <1>0
    <2>6. g[a] \in 1 .. n /\ g[a] > a
      <3>1. g[a] \in 1 .. n BY <2>4, <1>2
      <3>2. ASSUME g[a] < a PROVE FALSE
        <4>1. g[a] \in 1 .. m BY <3>1, <3>2, <2>4, <1>0
        <4>2. g[g[a]] = g[a] BY <4>1, <3>2, <2>5
        <4>3. g[g[a]] < g[a] BY <4>1, <3>2, <2>4, <1>2
        <4> QED BY <4>2, <4>3, <3>1
      <3> QED BY <3>1, <3>2, <2>4, <1>0
    <2>7. a \in 1 .. n BY <2>4, <2>6, <1>0
    <2>8. PICK b \in 1 .. m : g[b] = a BY <2>4, <2>7, <1>0, <1>3
    <2>9. CASE b < a BY <2>9, <2>5, <2>8
    <2>10. CASE b = a BY <2>10, <2>4, <2>8
    <2>11. CASE a < b
      <3>1. g[a] < g[b] BY <2>11, <2>4, <1>2
      <3>2. g[a] < a BY <3>1, <2>8
      <3>3. g[a] \in Nat /\ a \in Nat /\ g[a] > a BY <2>4, <2>6, <1>0
      <3> QED BY <3>2, <3>3
    <2> QED BY <2>9, <2>10, <2>11, <2>4, <1>0
  <1> QED BY <1>0, <1>1, <1>4, <1>5

LEMMA KeptUnique ==
  ASSUME NEW S, NEW entries \in Seq(S), NEW kept \in Seq(S), KeptOf(entries, kept, Len(entries)),
         \A j, k \in DOMAIN entries : entries[j].id = entries[k].id => j = k
  PROVE  /\ \A j, k \in DOMAIN kept : kept[j].id = kept[k].id => j = k
         /\ \A j \in DOMAIN kept : \E k \in DOMAIN entries : kept[j] = entries[k]
  <1> DEFINE m == Len(kept)
             n == Len(entries)
  <1>0. m \in Nat /\ n \in Nat /\ DOMAIN kept = 1 .. m /\ DOMAIN entries = 1 .. n OBVIOUS
  <1>1. PICK g : Ascends(g, m, n) /\ \A j \in 1 .. m : kept[j] = entries[g[j]] BY DEF KeptOf
  <1>2. g \in [1 .. m -> 1 .. n] /\ \A a, b \in 1 .. m : a < b => g[a] < g[b]
    BY <1>1 DEF Ascends
  <1> HIDE DEF m, n
  <1>3. ASSUME NEW j \in 1 .. m, NEW k \in 1 .. m, kept[j].id = kept[k].id PROVE j = k
    <2>1. g[j] \in 1 .. n /\ g[k] \in 1 .. n /\ entries[g[j]].id = entries[g[k]].id BY <1>1, <1>2, <1>3
    <2>2. g[j] = g[k] BY <2>1, <1>0
    <2>3. ~(j < k) /\ ~(k < j) BY <1>2, <2>1, <2>2
    <2> QED BY <2>3, <1>0
  <1> QED BY <1>0, <1>1, <1>2, <1>3

\* While a walk goes on and nothing it has passed is erased, who is due has been called
\* or still lies before it.
CallbackEntries == [id : Nat, cb : Functions, event : Events \cup {Callbacks!All}]
CallbackListed ==
    /\ cbEventList \in Seq(CallbackEntries) /\ current_id \in Nat
    /\ \A k \in DOMAIN cbEventList : cbEventList[k].id < current_id
    /\ \A j, k \in DOMAIN cbEventList : cbEventList[j].id = cbEventList[k].id => j = k
CallbackDue ==
    walk.i > 0 /\ ~shifted =>
        \A id \in due : \/ id \in heard
                        \/ \E k \in DOMAIN cbEventList :
                              /\ k >= walk.i /\ cbEventList[k].id = id
                              /\ Callbacks!Wants(cbEventList[k], walk.event)
CallbackInv ==
    /\ CallbackListed
    /\ walk = [event |-> walk.event, i |-> walk.i] /\ walk.i \in Nat
    /\ CallbackDue

LEMMA CallbackInit == Callbacks!Init => CallbackInv
  BY DEF Callbacks!Init, CallbackInv, CallbackListed, CallbackDue

LEMMA CallbackOnEvent ==
  ASSUME CallbackInv, NEW f \in Functions, NEW e \in Events \cup {Callbacks!All},
         Callbacks!OnEvent(f, e)
  PROVE  CallbackInv'
  <1> DEFINE entry == [id |-> current_id, cb |-> f, event |-> e]
             n == Len(cbEventList)
  <1>0. /\ cbEventList \in Seq(CallbackEntries) /\ n \in Nat /\ DOMAIN cbEventList = 1 .. n
        /\ current_id \in Nat
    BY DEF CallbackInv, CallbackListed
  <1>1. /\ cbEventList' = Append(cbEventList, entry) /\ current_id' = current_id + 1
        /\ UNCHANGED <<walk, heard, due, shifted>>
    BY DEF Callbacks!OnEvent
  <1>2. entry \in CallbackEntries /\ entry.id = current_id BY <1>0 DEF CallbackEntries
  <1> HIDE DEF entry
  <1>3. /\ cbEventList' \in Seq(CallbackEntries) /\ DOMAIN cbEventList' = 1 .. n + 1
        /\ cbEventList'[n + 1] = entry /\ \A k \in 1 .. n : cbEventList'[k] = cbEventList[k]
    BY <1>0, <1>1, <1>2
  <1> HIDE DEF n
  <1>4. CallbackListed'
    <2>1. \A k \in 1 .. n : cbEventList[k].id < current_id /\ cbEventList[k].id \in Nat
      <3> SUFFICES ASSUME NEW k \in 1 .. n
                   PROVE  cbEventList[k].id < current_id /\ cbEventList[k].id \in Nat
        OBVIOUS
      <3>1. cbEventList[k].id < current_id BY <1>0 DEF CallbackInv, CallbackListed
      <3>2. cbEventList[k] \in CallbackEntries BY <1>0
      <3>3. \A r \in CallbackEntries : r.id \in Nat BY DEF CallbackEntries
      <3> QED BY <3>1, <3>2, <3>3
    <2>2. \A k \in DOMAIN cbEventList' : cbEventList'[k].id < current_id'
      BY <1>0, <1>1, <1>2, <1>3, <2>1
    <2>3. \A j, k \in 1 .. n : cbEventList[j].id = cbEventList[k].id => j = k
      BY <1>0 DEF CallbackInv, CallbackListed
    <2>4. \A j, k \in DOMAIN cbEventList' : cbEventList'[j].id = cbEventList'[k].id => j = k
      BY <1>0, <1>2, <1>3, <2>1, <2>3
    <2> QED BY <1>0, <1>1, <1>3, <2>2, <2>4 DEF CallbackListed
  <1>5. CallbackDue'
    BY <1>0, <1>1, <1>3 DEF CallbackInv, CallbackDue, Callbacks!Wants
  <1> QED BY <1>1, <1>4, <1>5 DEF CallbackInv

LEMMA CallbackRemove ==
  ASSUME CallbackInv, NEW meant, Callbacks!RemoveEvents(meant)
  PROVE  CallbackInv'
  <1> DEFINE kept == Callbacks!EraseLoop(cbEventList, meant)
  <1>0. /\ cbEventList \in Seq(CallbackEntries)
        /\ \A j, k \in DOMAIN cbEventList : cbEventList[j].id = cbEventList[k].id => j = k
        /\ \A k \in DOMAIN cbEventList : cbEventList[k].id < current_id
    BY DEF CallbackInv, CallbackListed
  <1>1. kept \in Seq(CallbackEntries) /\ KeptOf(cbEventList, kept, Len(cbEventList))
    BY <1>0, EraseKeeps
  <1> HIDE DEF kept
  <1>2. /\ cbEventList' = kept /\ UNCHANGED <<current_id, walk, heard>>
        /\ due' = due \cap Callbacks!IdsOf(kept)
        /\ ~shifted' => ~shifted
        /\ walk.i > 0 /\ ~shifted' =>
              \A k \in DOMAIN cbEventList :
                  k < walk.i => cbEventList[k].id \in Callbacks!IdsOf(kept)
    BY <1>0 DEF Callbacks!RemoveEvents, Callbacks!Walking, kept
  <1>3. CallbackListed'
    <2>1. /\ \A j, k \in DOMAIN kept : kept[j].id = kept[k].id => j = k
          /\ \A j \in DOMAIN kept : \E k \in DOMAIN cbEventList : kept[j] = cbEventList[k]
      BY <1>0, <1>1, KeptUnique
    <2> QED BY <1>0, <1>1, <1>2, <2>1 DEF CallbackListed, CallbackInv
  <1>4. CallbackDue'
    <2> SUFFICES ASSUME walk.i > 0, ~shifted', NEW id \in due', id \notin heard
                 PROVE  \E j \in DOMAIN kept :
                           /\ j >= walk.i /\ kept[j].id = id
                           /\ Callbacks!Wants(kept[j], walk.event)
      BY <1>2 DEF CallbackDue, Callbacks!Wants
    <2>1. PICK k \in DOMAIN cbEventList :
             /\ k >= walk.i /\ cbEventList[k].id = id
             /\ Callbacks!Wants(cbEventList[k], walk.event)
      BY <1>2 DEF CallbackInv, CallbackDue
    <2>2. walk.i \in Nat BY DEF CallbackInv
    <2>3. /\ \A p \in DOMAIN cbEventList :
                p < walk.i => cbEventList[p].id \in Callbacks!IdsOf(kept)
          /\ cbEventList[k].id \in Callbacks!IdsOf(kept)
      BY <1>2, <2>1
    <2>4. \E j \in DOMAIN kept : j >= walk.i /\ kept[j] = cbEventList[k]
      <3>1. k \in DOMAIN cbEventList /\ k >= walk.i BY <2>1
      <3> QED BY <1>0, <1>1, <2>2, <2>3, <3>1, KeptPlaces
    <2> QED BY <2>1, <2>4
  <1> QED BY <1>2, <1>3, <1>4 DEF CallbackInv

LEMMA CallbackDispatch ==
  ASSUME CallbackInv, NEW e, Callbacks!Dispatch(e)
  PROVE  CallbackInv'
  <1>1. /\ UNCHANGED <<cbEventList, current_id>> /\ walk' = [event |-> e, i |-> 1]
        /\ due' = {entry.id : entry \in {x \in Callbacks!Registered :
                                           x.event \in {e, Callbacks!All}}}
    BY DEF Callbacks!Dispatch
  <1>2. CallbackListed' BY <1>1 DEF CallbackInv, CallbackListed
  <1>3. CallbackDue'
    BY <1>1 DEF CallbackDue, CallbackInv, CallbackListed, Callbacks!Wants, Callbacks!Registered
  <1> QED BY <1>1, <1>2, <1>3 DEF CallbackInv

LEMMA CallbackTurn ==
  ASSUME CallbackInv, Callbacks!Turn
  PROVE  CallbackInv'
  <1>1. UNCHANGED <<cbEventList, current_id, due, shifted>> BY DEF Callbacks!Turn
  <1>2. CallbackListed' BY <1>1 DEF CallbackInv, CallbackListed
  <1>3. CASE walk.i > Len(cbEventList)
    <2>1. walk' = [walk EXCEPT !.i = 0] BY <1>3 DEF Callbacks!Turn
    <2>2. walk' = [event |-> walk'.event, i |-> walk'.i] /\ walk'.i = 0
      BY <2>1 DEF CallbackInv
    <2> QED BY <1>2, <2>2 DEF CallbackInv, CallbackDue
  <1>4. CASE ~(walk.i > Len(cbEventList))
    <2>1. /\ walk' = [walk EXCEPT !.i = @ + 1]
          /\ heard' = IF Callbacks!Wants(cbEventList[walk.i], walk.event)
                      THEN heard \cup {cbEventList[walk.i].id} ELSE heard
      BY <1>4 DEF Callbacks!Turn
    <2>2. /\ walk' = [event |-> walk.event, i |-> walk.i + 1] /\ walk.i \in Nat
          /\ walk'.event = walk.event /\ walk'.i = walk.i + 1
      BY <2>1 DEF CallbackInv
    <2>3. CallbackDue'
      <3> SUFFICES ASSUME ~shifted, NEW id \in due, id \notin heard'
                   PROVE  \E k \in DOMAIN cbEventList :
                             /\ k >= walk.i + 1 /\ cbEventList[k].id = id
                             /\ Callbacks!Wants(cbEventList[k], walk.event)
        BY <1>1, <2>2 DEF CallbackDue, Callbacks!Wants
      <3>1. walk.i > 0 BY DEF Callbacks!Turn, Callbacks!Walking
      <3>2. id \notin heard BY <2>1
      <3>3. PICK k \in DOMAIN cbEventList :
               /\ k >= walk.i /\ cbEventList[k].id = id
               /\ Callbacks!Wants(cbEventList[k], walk.event)
        BY <3>1, <3>2 DEF CallbackInv, CallbackDue
      <3>4. k # walk.i BY <2>1, <3>3
      <3>5. k \in Nat BY DEF CallbackInv, CallbackListed
      <3> QED BY <2>2, <3>3, <3>4, <3>5
    <2> QED BY <1>2, <2>2, <2>3 DEF CallbackInv
  <1> QED BY <1>3, <1>4

LEMMA CallbackNext == ASSUME CallbackInv, Callbacks!Next PROVE CallbackInv'
  BY CallbackOnEvent, CallbackRemove, CallbackDispatch, CallbackTurn
  DEF Callbacks!Next, Callbacks!RemoveByFunction, Callbacks!RemoveById

LEMMA CallbackStands == ASSUME CallbackInv, UNCHANGED callbackVars PROVE CallbackInv'
  BY DEF callbackVars, CallbackInv, CallbackListed, CallbackDue, Callbacks!Wants

\* A walk that ends has called everybody who was due.
LEMMA CallbackHears ==
  ASSUME CallbackInv
  PROVE  Callbacks!Turn /\ walk'.i = 0 /\ ~shifted => due \subseteq heard
  <1> SUFFICES ASSUME Callbacks!Turn, walk'.i = 0, ~shifted, NEW id \in due PROVE id \in heard
    OBVIOUS
  <1>1. walk.i \in Nat /\ walk.i > 0 BY DEF CallbackInv, Callbacks!Turn, Callbacks!Walking
  <1>2. walk = [event |-> walk.event, i |-> walk.i] BY DEF CallbackInv
  <1>3. walk.i > Len(cbEventList)
    <2> SUFFICES ASSUME ~(walk.i > Len(cbEventList)) PROVE FALSE OBVIOUS
    <2>1. walk' = [walk EXCEPT !.i = @ + 1] BY DEF Callbacks!Turn
    <2>2. walk'.i = walk.i + 1 BY <2>1, <1>2
    <2> QED BY <2>2, <1>1
  <1>4. \A k \in DOMAIN cbEventList : k <= Len(cbEventList) /\ k \in Nat /\ Len(cbEventList) \in Nat
    BY DEF CallbackInv, CallbackListed
  <1>5. ~\E k \in DOMAIN cbEventList : k >= walk.i BY <1>1, <1>3, <1>4
  <1> QED BY <1>1, <1>5 DEF CallbackInv, CallbackDue

-----------------------------------------------------------------------------
(* Datagrams: what is in the buffer is what the program wrote. *)

\* What the program writes is in the buffer, for the peer it was begun for, unless the packet
\* is torn.
UdpInv ==
    /\ tx = Udp!None \/ (tx \in Seq(PacketBytes) /\ Len(tx) <= TxSize)
    /\ packet = [to |-> packet.to, data |-> packet.data]
    /\ ~torn => tx = Udp!None \/ (tx = packet.data /\ remote = packet.to)

LEMMA UdpInit == Udp!Init => UdpInv
  BY LibrarySizes DEF Udp!Init, UdpInv

LEMMA UdpBegins == ASSUME UdpInv, Udp!Begin \/ Udp!Stop PROVE UdpInv'
  <1>1. <<>> \in Seq(PacketBytes) /\ Len(<<>>) <= TxSize BY LibrarySizes
  <1>2. CASE tx' = Udp!None /\ UNCHANGED packet BY <1>2 DEF UdpInv
  <1>3. CASE /\ tx' = <<>> /\ UNCHANGED remote
             /\ packet' = [to |-> remote, data |-> <<>>]
    <2>1. packet'.to = remote /\ packet'.data = <<>> BY <1>3
    <2>2. packet' = [to |-> packet'.to, data |-> packet'.data] BY <1>3
    <2> QED BY <1>1, <1>3, <2>1, <2>2 DEF UdpInv
  <1> QED BY <1>2, <1>3 DEF Udp!Begin, Udp!Stop, Udp!Closed

LEMMA UdpBeginsPacket == ASSUME UdpInv, NEW p, Udp!BeginPacket(p) PROVE UdpInv'
  <1>1. <<>> \in Seq(PacketBytes) /\ Len(<<>>) <= TxSize BY LibrarySizes
  <1> QED BY <1>1 DEF UdpInv, Udp!BeginPacket

LEMMA UdpWrites == ASSUME UdpInv, NEW b \in PacketBytes, Udp!Write(b) PROVE UdpInv'
  <1>1. tx # Udp!None /\ tx \in Seq(PacketBytes) /\ Len(tx) <= TxSize /\ UNCHANGED remote
    BY DEF UdpInv, Udp!Write
  <1>2. packet' = packet \/ packet' = [packet EXCEPT !.data = Append(@, b)]
    BY DEF Udp!Write
  <1>3. packet' = [to |-> packet'.to, data |-> packet'.data] /\ packet'.to = packet.to
    <2>1. CASE packet' = packet BY <2>1 DEF UdpInv
    <2>2. CASE packet' = [packet EXCEPT !.data = Append(@, b)]
      <3>1. packet = [to |-> packet.to, data |-> packet.data] BY DEF UdpInv
      <3>2. packet' = [to |-> packet.to, data |-> Append(packet.data, b)] BY <2>2, <3>1
      <3> QED BY <3>2
    <2> QED BY <1>2, <2>1, <2>2
  <1>4. CASE Len(tx) = TxSize
    <2>1. tx' = <<b>> /\ torn' = TRUE BY <1>4 DEF Udp!Write
    <2>2. tx' \in Seq(PacketBytes) /\ Len(tx') <= TxSize BY <2>1, LibrarySizes
    <2> QED BY <2>1, <2>2, <1>3 DEF UdpInv
  <1>5. CASE Len(tx) # TxSize
    <2>1. tx' = Append(tx, b) /\ UNCHANGED torn BY <1>5 DEF Udp!Write
    <2>2. tx' \in Seq(PacketBytes) /\ Len(tx') <= TxSize BY <2>1, <1>1, <1>5, LibrarySizes
    <2>3. ~torn => tx' = packet'.data /\ remote' = packet'.to
      <3> SUFFICES ASSUME ~torn PROVE tx' = packet'.data /\ remote' = packet'.to OBVIOUS
      <3>1. tx = packet.data /\ remote = packet.to BY <1>1 DEF UdpInv
      <3>2. ~(Len(packet.data) > TxSize) BY <3>1, <1>1, LibrarySizes
      <3>3. packet' = [packet EXCEPT !.data = Append(@, b)] BY <3>2 DEF Udp!Write
      <3>4. packet'.data = Append(packet.data, b) BY <3>3 DEF UdpInv
      <3> QED BY <3>1, <3>4, <2>1, <1>1, <1>3
    <2> QED BY <2>1, <2>2, <2>3, <1>3 DEF UdpInv
  <1> QED BY <1>4, <1>5

LEMMA UdpNext == ASSUME UdpInv, Udp!Next PROVE UdpInv'
  <1>1. CASE Udp!ParsePacket BY <1>1 DEF UdpInv, Udp!ParsePacket
  <1>2. CASE Udp!EndPacket BY <1>2 DEF UdpInv, Udp!EndPacket
  <1>3. CASE Udp!Flush BY <1>3 DEF UdpInv, Udp!Flush
  <1>4. ASSUME NEW n, Udp!Read(n) PROVE UdpInv' BY <1>4 DEF UdpInv, Udp!Read
  <1>5. ASSUME NEW p, NEW d, Udp!Arrives(p, d) PROVE UdpInv'
    BY <1>5 DEF UdpInv, Udp!Arrives, Udp!ghosts
  <1> QED BY <1>1, <1>2, <1>3, <1>4, <1>5, UdpBegins, UdpBeginsPacket, UdpWrites
          DEF Udp!Next, Udp!BeginReply

LEMMA UdpStands == ASSUME UdpInv, UNCHANGED udpVars PROVE UdpInv'
  BY DEF udpVars, UdpInv

\* What leaves is what was written.
LEMMA UdpSends ==
  ASSUME UdpInv, Udp!Next, outgoing' # outgoing, ~torn'
  PROVE  outgoing' = packet'
  <1>1. CASE Udp!EndPacket BY <1>1 DEF UdpInv, Udp!EndPacket, Udp!Send
  <1>2. ASSUME NEW b, Udp!Write(b) PROVE FALSE BY <1>2 DEF Udp!Write
  <1> QED
    BY <1>1, <1>2
    DEF Udp!Next, Udp!Stop, Udp!Begin, Udp!BeginReply, Udp!BeginPacket, Udp!ParsePacket,
        Udp!Flush, Udp!Read, Udp!Arrives, Udp!ghosts

-----------------------------------------------------------------------------
(* The station.  Its bits and its status follow the driver, with the events in the queue *)
(* and the one at hand between them.  For each of six facts that events set and reset   *)
(* the invariant says how what is so now follows from what was so before those events.  *)

StationEvents ==
    {Station!Event(id) : id \in {"sta start", "sta stop", "sta connected", "got ip", "lost ip",
                                 "ap start", "ap stop"}}
    \cup {Station!Loss(r) : r \in Station!Reasons}

\* What an event does to a bit, to status() being connected, and to the mark of AUTH_EXPIRE.
Does(id, on, off) == IF id \in on THEN "on" ELSE IF id \in off THEN "off" ELSE "keep"
StartedBy == [e \in StationEvents |-> Does(e.id, {"sta start"}, {"sta stop"})]
ConnectedBy ==
    [e \in StationEvents |->
        Does(e.id, {"sta connected", "got ip"}, {"sta stop", "disconnected"})]
AddressBy ==
    [e \in StationEvents |-> Does(e.id, {"got ip"}, {"sta stop", "disconnected", "lost ip"})]
ApBy == [e \in StationEvents |-> Does(e.id, {"ap start"}, {"ap stop"})]
SaysBy ==
    [e \in StationEvents |->
        IF ~Station!SetsStatus(e) THEN "keep" ELSE IF e.id = "got ip" THEN "on" ELSE "off"]
ExpiryBy ==
    [e \in StationEvents |->
        IF e.reason = "expire" THEN "on" ELSE IF Station!SetsStatus(e) THEN "off" ELSE "keep"]
OnOff(b) == IF b THEN "on" ELSE "off"

\* What the event e, or none, makes of what was; and what the queue q makes of it is now.
After(f, e, was) == IF e = Station!NoEvent \/ f[e] = "keep" THEN was ELSE f[e]
Told(f, q, was, now) ==
    \/ was = now /\ \A i \in DOMAIN q : f[q[i]] = "keep"
    \/ \E i \in DOMAIN q : f[q[i]] = now /\ \A j \in i + 1 .. Len(q) : f[q[j]] = "keep"

\* The event at hand, while its bits, or its status, are still to be set; what follows once
\* it is done.
Hand(places) == IF staTask.at \in places THEN staTask.event ELSE Station!NoEvent
BitThen(f, bit) == After(f, Hand({"status", "bits"}), OnOff(bit \in staBits))
StatusThen == After(SaysBy, Hand({"status"}), OnOff(status = "connected"))
ExpiryThen == After(ExpiryBy, Hand({"status", "bits"}), OnOff(expired))
StationWas ==
    [started |-> BitThen(StartedBy, "sta started"),
     connected |-> BitThen(ConnectedBy, "sta connected"),
     address |-> BitThen(AddressBy, "sta ip"), ap |-> BitThen(ApBy, "ap started"),
     says |-> StatusThen, expiry |-> ExpiryThen]

\* A driver of mode m, with its link l, has told all in the queue q; nothing in the queue
\* has one of the reasons in R.
StationFits(m, l, q, R, w) ==
    /\ q \in Seq(StationEvents)
    /\ "sta" \notin m => l = "down"
    /\ Told(StartedBy, q, w.started, OnOff("sta" \in m))
    /\ Told(ConnectedBy, q, w.connected, OnOff(l \in {"joined", "up"}))
    /\ Told(AddressBy, q, w.address, OnOff(l = "up"))
    /\ Told(ApBy, q, w.ap, OnOff("ap" \in m))
    /\ l = "up" => Told(SaysBy, q, w.says, "on")
    /\ l # "up" => Told(SaysBy, q, w.says, "off")
                   \/ Told(ExpiryBy, q, w.expiry, "on")
    /\ \A i \in DOMAIN q : q[i].reason \notin R

\* What the task has at hand, and that no loss is retried once the program has turned the
\* station off and heard of its losses.
StationQuiet == IF quiet THEN Station!Retried ELSE {}
StationTask ==
    /\ staTask = [at |-> staTask.at, event |-> staTask.event]
    /\ staTask.at \in {"rest", "status", "bits", "leave", "begin"}
    /\ staTask.at \in {"status", "bits"} => staTask.event \in StationEvents
    /\ staTask.at = "status" => Station!SetsStatus(staTask.event)
    /\ staTask.at = "bits" /\ Station!SetsStatus(staTask.event) => ~expired
    /\ staTask.at \in {"leave", "begin"} => staTask.event.reason \in Station!Retried
    /\ staTask.at # "rest" => staTask.event.reason \notin StationQuiet
StationInv ==
    /\ drv = [mode |-> drv.mode, config |-> drv.config, link |-> drv.link, queue |-> drv.queue]
    /\ StationFits(drv.mode, drv.link, drv.queue, StationQuiet, StationWas)
    /\ StationTask
    /\ quiet => "sta" \notin drv.mode

LEMMA ToldMore ==
  ASSUME NEW S, NEW f, NEW q \in Seq(S), NEW e, NEW was, NEW now, NEW new,
         (f[e] = "keep" /\ new = now /\ Told(f, q, was, now)) \/ f[e] = new
  PROVE  Told(f, q \o <<e>>, was, new)
  <1> DEFINE p == q \o <<e>>
  <1>1. /\ Len(p) = Len(q) + 1 /\ DOMAIN p = 1 .. Len(q) + 1 /\ DOMAIN q = 1 .. Len(q)
        /\ Len(q) \in Nat /\ p[Len(q) + 1] = e /\ \A i \in DOMAIN q : p[i] = q[i]
    OBVIOUS
  <1> HIDE DEF p
  <1>2. CASE f[e] = new
    <2>1. Len(q) + 1 \in DOMAIN p /\ f[p[Len(q) + 1]] = new BY <1>1, <1>2
    <2>2. \A j \in Len(q) + 1 + 1 .. Len(p) : f[p[j]] = "keep" BY <1>1
    <2> QED BY <2>1, <2>2 DEF Told, p
  <1>3. CASE f[e] = "keep" /\ new = now /\ Told(f, q, was, now)
    <2>1. CASE was = now /\ \A i \in DOMAIN q : f[q[i]] = "keep"
      <3>1. \A i \in DOMAIN p : f[p[i]] = "keep" BY <1>1, <1>3, <2>1
      <3> QED BY <1>3, <2>1, <3>1 DEF Told, p
    <2>2. ASSUME NEW i \in DOMAIN q, f[q[i]] = now, \A j \in i + 1 .. Len(q) : f[q[j]] = "keep"
          PROVE  Told(f, p, was, new)
      <3>1. i \in DOMAIN p /\ f[p[i]] = new BY <1>1, <1>3, <2>2
      <3>2. \A j \in i + 1 .. Len(p) : f[p[j]] = "keep" BY <1>1, <1>3, <2>2
      <3> QED BY <3>1, <3>2 DEF Told
    <2> QED BY <1>3, <2>1, <2>2 DEF Told, p
  <1> QED BY <1>2, <1>3

LEMMA ToldHead ==
  ASSUME NEW S, NEW f, NEW q \in Seq(S), q # <<>>, NEW was, NEW now, now # "keep",
         Told(f, q, was, now), Head(q) # Station!NoEvent
  PROVE  Told(f, Tail(q), After(f, Head(q), was), now)
  <1> DEFINE p == Tail(q)
  <1>1. /\ Len(p) = Len(q) - 1 /\ DOMAIN p = 1 .. Len(q) - 1 /\ DOMAIN q = 1 .. Len(q)
        /\ Len(q) \in Nat /\ Len(q) > 0 /\ Head(q) = q[1]
        /\ \A i \in DOMAIN p : p[i] = q[i + 1]
    OBVIOUS
  <1> HIDE DEF p
  <1>2. CASE was = now /\ \A i \in DOMAIN q : f[q[i]] = "keep"
    <2>1. After(f, Head(q), was) = was BY <1>1, <1>2 DEF After
    <2>2. \A i \in DOMAIN p : f[p[i]] = "keep" BY <1>1, <1>2
    <2> QED BY <1>2, <2>1, <2>2 DEF Told, p
  <1>3. ASSUME NEW i \in DOMAIN q, f[q[i]] = now, \A j \in i + 1 .. Len(q) : f[q[j]] = "keep"
        PROVE  Told(f, p, After(f, Head(q), was), now)
    <2>1. CASE i = 1
      <3>1. After(f, Head(q), was) = now BY <1>1, <1>3, <2>1 DEF After
      <3>2. \A k \in DOMAIN p : f[p[k]] = "keep" BY <1>1, <1>3, <2>1
      <3> QED BY <3>1, <3>2 DEF Told
    <2>2. CASE i # 1
      <3>1. i - 1 \in DOMAIN p /\ f[p[i - 1]] = now BY <1>1, <1>3, <2>2
      <3>2. \A j \in (i - 1) + 1 .. Len(p) : f[p[j]] = "keep" BY <1>1, <1>3, <2>2
      <3> QED BY <3>1, <3>2 DEF Told
    <2> QED BY <2>1, <2>2
  <1> QED BY <1>2, <1>3 DEF Told, p

StationIds == {"sta start", "sta stop", "sta connected", "got ip", "lost ip", "ap start", "ap stop"}
LEMMA EventIs ==
  ASSUME NEW id \in StationIds
  PROVE  LET e == Station!Event(id)
         IN  e \in StationEvents /\ e.id = id /\ e.reason = ""
  BY DEF StationEvents, StationIds, Station!Event
LEMMA LossIs ==
  ASSUME NEW r \in Station!Reasons
  PROVE  LET e == Station!Loss(r)
         IN  e \in StationEvents /\ e.id = "disconnected" /\ e.reason = r
  BY DEF StationEvents, Station!Loss
LEMMA EventDoes ==
  ASSUME NEW id \in StationIds
  PROVE  LET e == Station!Event(id)
         IN  /\ StartedBy[e] = Does(id, {"sta start"}, {"sta stop"})
             /\ ConnectedBy[e] = Does(id, {"sta connected", "got ip"}, {"sta stop", "disconnected"})
             /\ AddressBy[e] = Does(id, {"got ip"}, {"sta stop", "disconnected", "lost ip"})
             /\ ApBy[e] = Does(id, {"ap start"}, {"ap stop"})
             /\ SaysBy[e] = IF id \in {"ap start", "ap stop"} THEN "keep"
                            ELSE IF id = "got ip" THEN "on" ELSE "off"
             /\ ExpiryBy[e] = IF id \in {"ap start", "ap stop"} THEN "keep" ELSE "off"
  <1>1. "expire" # "" OBVIOUS
  <1> QED
    BY <1>1, EventIs
    DEF StartedBy, ConnectedBy, AddressBy, ApBy, SaysBy, ExpiryBy, Station!SetsStatus
LEMMA LossDoes ==
  ASSUME NEW r \in Station!Reasons
  PROVE  LET e == Station!Loss(r)
         IN  /\ StartedBy[e] = "keep" /\ ConnectedBy[e] = "off" /\ AddressBy[e] = "off"
             /\ ApBy[e] = "keep"
             /\ SaysBy[e] = IF r = "expire" THEN "keep" ELSE "off"
             /\ ExpiryBy[e] = IF r = "expire" THEN "on" ELSE "off"
  BY LossIs DEF StartedBy, ConnectedBy, AddressBy, ApBy, SaysBy, ExpiryBy, Does, Station!SetsStatus
LEMMA StationReasons ==
    /\ \A e \in StationEvents : e # Station!NoEvent
    /\ "" \notin Station!Retried /\ "leave" \notin Station!Retried /\ "leave" \in Station!Reasons
  <1>1. Station!NoEvent.id = "" BY DEF Station!NoEvent, Station!Event
  <1>2. ASSUME NEW e \in StationEvents PROVE e.id # ""
    <2>1. CASE \E id \in StationIds : e = Station!Event(id)
      BY <2>1, EventIs DEF StationIds
    <2>2. CASE \E r \in Station!Reasons : e = Station!Loss(r)
      BY <2>2, LossIs
    <2> QED BY <2>1, <2>2 DEF StationEvents, StationIds
  <1>3. "" \notin Station!Retried /\ "leave" \notin Station!Retried /\ "leave" \in Station!Reasons
    BY DEF Station!Retried, Station!Reasons, Station!StatusAfter
  <1> QED BY <1>1, <1>2, <1>3

\* An event that says what has changed.
LEMMA FitsMore ==
  ASSUME NEW m, NEW l, NEW q, NEW R, NEW w, StationFits(m, l, q, R, w),
         NEW e \in StationEvents, e.reason \notin R,
         NEW n, NEW k, "sta" \notin n => k = "down",
         \/ StartedBy[e] = "keep" /\ ("sta" \in m <=> "sta" \in n)
         \/ StartedBy[e] = OnOff("sta" \in n),
         \/ ConnectedBy[e] = "keep" /\ (l \in {"joined", "up"} <=> k \in {"joined", "up"})
         \/ ConnectedBy[e] = OnOff(k \in {"joined", "up"}),
         \/ AddressBy[e] = "keep" /\ (l = "up" <=> k = "up")
         \/ AddressBy[e] = OnOff(k = "up"),
         \/ ApBy[e] = "keep" /\ ("ap" \in m <=> "ap" \in n)
         \/ ApBy[e] = OnOff("ap" \in n),
         k = "up" => SaysBy[e] = "on" \/ (SaysBy[e] = "keep" /\ l = "up"),
         k # "up" => \/ SaysBy[e] = "off" \/ ExpiryBy[e] = "on"
                     \/ SaysBy[e] = "keep" /\ ExpiryBy[e] = "keep" /\ l # "up"
  PROVE  StationFits(n, k, q \o <<e>>, R, w)
  <1>0. q \in Seq(StationEvents) /\ \A i \in DOMAIN q : q[i].reason \notin R BY DEF StationFits
  <1> DEFINE p == q \o <<e>>
  <1>1. /\ p \in Seq(StationEvents) /\ DOMAIN p = 1 .. Len(q) + 1 /\ DOMAIN q = 1 .. Len(q)
        /\ p[Len(q) + 1] = e /\ \A i \in DOMAIN q : p[i] = q[i]
    BY <1>0
  <1>8. \A i \in DOMAIN p : p[i].reason \notin R BY <1>0, <1>1
  <1> USE DEF StationFits
  <1>2. Told(StartedBy, q \o <<e>>, w.started, OnOff("sta" \in n))
    BY ToldMore DEF OnOff
  <1>3. Told(ConnectedBy, q \o <<e>>, w.connected,
             OnOff(k \in {"joined", "up"}))
    BY ToldMore DEF OnOff
  <1>4. Told(AddressBy, q \o <<e>>, w.address, OnOff(k = "up"))
    BY ToldMore DEF OnOff
  <1>5. Told(ApBy, q \o <<e>>, w.ap, OnOff("ap" \in n))
    BY ToldMore DEF OnOff
  <1>6. k = "up" => Told(SaysBy, q \o <<e>>, w.says, "on")
    <2>1. l = "up" => Told(SaysBy, q, w.says, "on") OBVIOUS
    <2>2. l # "up" => \/ Told(SaysBy, q, w.says, "off")
                      \/ Told(ExpiryBy, q, w.expiry, "on")
      OBVIOUS
    <2> HIDE DEF StationFits
    <2>3. CASE SaysBy[e] = "on" BY <1>0, <2>1, <2>2, <2>3, ToldMore
    <2>4. CASE SaysBy[e] = "keep" /\ l = "up" BY <1>0, <2>1, <2>4, ToldMore
    <2> QED BY <2>3, <2>4
  <1>7. k # "up" => \/ Told(SaysBy, q \o <<e>>, w.says, "off")
                    \/ Told(ExpiryBy, q \o <<e>>, w.expiry, "on")
    <2>1. l = "up" => Told(SaysBy, q, w.says, "on") OBVIOUS
    <2>2. l # "up" => \/ Told(SaysBy, q, w.says, "off")
                      \/ Told(ExpiryBy, q, w.expiry, "on")
      OBVIOUS
    <2> HIDE DEF StationFits
    <2>3. CASE SaysBy[e] = "off" BY <1>0, <2>1, <2>2, <2>3, ToldMore
    <2>4. CASE ExpiryBy[e] = "on" BY <1>0, <2>1, <2>2, <2>3, ToldMore
    <2>5. CASE SaysBy[e] = "keep" /\ ExpiryBy[e] = "keep" /\ l # "up" BY <1>0, <2>2, <2>5, ToldMore
    <2> QED BY <2>3, <2>4, <2>5
  <1> QED BY <1>1, <1>2, <1>3, <1>4, <1>5, <1>6, <1>7, <1>8

\* What the calls of the code make of a driver that has told all.
DrvShape(d) == d = [mode |-> d.mode, config |-> d.config, link |-> d.link, queue |-> d.queue]
DrvFits(d, R, w) == DrvShape(d) /\ StationFits(d.mode, d.link, d.queue, R, w)
Calm(R) == R \subseteq Station!Retried

LEMMA FitsJoins ==
  ASSUME NEW m, "sta" \in m, NEW q, NEW R, NEW w, StationFits(m, "down", q, R, w)
  PROVE  StationFits(m, "joining", q, R, w)
  BY DEF StationFits, OnOff

LEMMA FitsLeaves ==
  ASSUME NEW m, NEW l, NEW q, NEW R, NEW w, StationFits(m, l, q, R, w),
         NEW r \in Station!Reasons, r \notin R
  PROVE  StationFits(m, "down", q \o <<Station!Loss(r)>>, R, w)
  <1> DEFINE e == Station!Loss(r)
  <1>1. e \in StationEvents /\ e.reason \notin R BY LossIs
  <1>2. /\ StartedBy[e] = "keep" /\ ConnectedBy[e] = "off" /\ AddressBy[e] = "off"
        /\ ApBy[e] = "keep" /\ (SaysBy[e] = "off" \/ ExpiryBy[e] = "on")
    BY LossDoes
  <1> HIDE DEF e
  <1>3. StationFits(m, "down", q \o <<e>>, R, w)
    BY <1>1, <1>2, FitsMore DEF OnOff
  <1> QED BY <1>3 DEF e

LEMMA DisconnectFits ==
  ASSUME NEW R, NEW w, Calm(R), NEW d, DrvFits(d, R, w)
  PROVE  LET e == Station!Disconnect(d)
         IN  DrvFits(e, R, w) /\ e.link = "down" /\ e.mode = d.mode /\ e.config = d.config
  <1>1. CASE d.link = "down" BY <1>1 DEF Station!Disconnect
  <1>2. CASE d.link # "down"
    <2> DEFINE q == d.queue \o <<Station!Loss("leave")>>
    <2>1. Station!Disconnect(d) = [mode |-> d.mode, config |-> d.config, link |-> "down", queue |-> q]
      BY <1>2 DEF Station!Disconnect, Station!Post, DrvFits, DrvShape
    <2>2. StationFits(d.mode, "down", q, R, w)
      BY StationReasons, FitsLeaves DEF DrvFits, Calm
    <2> HIDE DEF q
    <2> QED BY <2>1, <2>2 DEF DrvFits, DrvShape
  <1> QED BY <1>1, <1>2

LEMMA ConnectFits ==
  ASSUME NEW R, NEW w, NEW d, DrvFits(d, R, w), "sta" \in d.mode
  PROVE  DrvFits(Station!Connect(d), R, w) /\ Station!Connect(d).mode = d.mode
  <1>1. CASE d.link = "down" /\ d.config # Station!NoNet
    <2>1. Station!Connect(d) = [mode |-> d.mode, config |-> d.config, link |-> "joining", queue |-> d.queue]
      BY <1>1 DEF Station!Connect, DrvFits, DrvShape
    <2>2. StationFits(d.mode, "joining", d.queue, R, w) BY <1>1, FitsJoins DEF DrvFits
    <2> QED BY <2>1, <2>2 DEF DrvFits, DrvShape
  <1> QED BY <1>1 DEF Station!Connect

LEMMA ConfigFits ==
  ASSUME NEW R, NEW w, NEW d, DrvFits(d, R, w), NEW n
  PROVE  LET e == [d EXCEPT !.config = n]
         IN  DrvFits(e, R, w) /\ e.mode = d.mode /\ e.link = d.link
  <1>1. [d EXCEPT !.config = n] = [mode |-> d.mode, config |-> n, link |-> d.link, queue |-> d.queue]
    BY DEF DrvFits, DrvShape
  <1> QED BY <1>1 DEF DrvFits, DrvShape

\* An interface stops or starts, or nothing becomes of it.
LEMMA FitsStaStop ==
  ASSUME NEW m, NEW q, NEW R, NEW w, Calm(R), StationFits(m, "down", q, R, w),
         NEW n, "sta" \notin n, "ap" \in m <=> "ap" \in n
  PROVE  StationFits(n, "down", q \o <<Station!Event("sta stop")>>, R, w)
  <1> DEFINE e == Station!Event("sta stop")
  <1>0. "sta stop" \in StationIds BY DEF StationIds
  <1>1. e \in StationEvents /\ e.reason \notin R BY <1>0, EventIs, StationReasons DEF Calm
  <1>2. /\ StartedBy[e] = "off" /\ ConnectedBy[e] = "off" /\ AddressBy[e] = "off"
        /\ ApBy[e] = "keep" /\ SaysBy[e] = "off"
    BY <1>0, EventDoes DEF Does
  <1> HIDE DEF e
  <1>3. StationFits(n, "down", q \o <<e>>, R, w) BY <1>1, <1>2, FitsMore DEF OnOff
  <1> QED BY <1>3 DEF e

LEMMA FitsStaStart ==
  ASSUME NEW m, NEW q, NEW R, NEW w, Calm(R), StationFits(m, "down", q, R, w),
         NEW n, "sta" \in n, "ap" \in m <=> "ap" \in n
  PROVE  StationFits(n, "down", q \o <<Station!Event("sta start")>>, R, w)
  <1> DEFINE e == Station!Event("sta start")
  <1>0. "sta start" \in StationIds BY DEF StationIds
  <1>1. e \in StationEvents /\ e.reason \notin R BY <1>0, EventIs, StationReasons DEF Calm
  <1>2. /\ StartedBy[e] = "on" /\ ConnectedBy[e] = "keep" /\ AddressBy[e] = "keep"
        /\ ApBy[e] = "keep" /\ SaysBy[e] = "off"
    BY <1>0, EventDoes DEF Does
  <1> HIDE DEF e
  <1>3. StationFits(n, "down", q \o <<e>>, R, w) BY <1>1, <1>2, FitsMore DEF OnOff
  <1> QED BY <1>3 DEF e

LEMMA FitsAp ==
  ASSUME NEW m, NEW l, NEW q, NEW R, NEW w, Calm(R), StationFits(m, l, q, R, w),
         NEW id, NEW n, "sta" \in m <=> "sta" \in n,
         (id = "ap start" /\ "ap" \in n) \/ (id = "ap stop" /\ "ap" \notin n)
  PROVE  StationFits(n, l, q \o <<Station!Event(id)>>, R, w)
  <1> DEFINE e == Station!Event(id)
  <1>0. id \in StationIds BY DEF StationIds
  <1>1. e \in StationEvents /\ e.reason \notin R BY <1>0, EventIs, StationReasons DEF Calm
  <1>2. /\ StartedBy[e] = "keep" /\ ConnectedBy[e] = "keep" /\ AddressBy[e] = "keep"
        /\ ApBy[e] = OnOff("ap" \in n) /\ SaysBy[e] = "keep" /\ ExpiryBy[e] = "keep"
    BY <1>0, EventDoes DEF Does, OnOff
  <1>3. "sta" \notin n => l = "down" BY DEF StationFits
  <1> HIDE DEF e
  <1>4. StationFits(n, l, q \o <<e>>, R, w) BY <1>1, <1>2, <1>3, FitsMore
  <1> QED BY <1>4 DEF e

LEMMA FitsSame ==
  ASSUME NEW m, NEW l, NEW q, NEW R, NEW w, StationFits(m, l, q, R, w),
         NEW n, "sta" \in m <=> "sta" \in n, "ap" \in m <=> "ap" \in n
  PROVE  StationFits(n, l, q, R, w)
  BY DEF StationFits, OnOff

\* mode(): what was left first, then what stops and what starts.
LEMMA ModeFits ==
  ASSUME NEW R, NEW w, Calm(R), NEW d, DrvFits(d, R, w), NEW m
  PROVE  LET e == Station!Mode(d, m)
         IN  DrvFits(e, R, w) /\ e.mode = m /\ ("sta" \in m => e.link = d.link)
  <1> DEFINE was == d.mode
             left == IF "sta" \in m THEN d ELSE Station!Disconnect(d)
             W(i) == IF i \in was \ m THEN <<Station!Event(Station!Stop[i])>> ELSE <<>>
             C(i) == IF i \in m \ was THEN <<Station!Event(Station!Start[i])>> ELSE <<>>
             ws == W("sta")
             wa == W("ap")
             cs == C("sta")
             ca == C("ap")
             m1 == was \ ({"sta"} \ m)
             m2 == m1 \ ({"ap"} \ m)
             m3 == m2 \cup ({"sta"} \cap m)
             q == left.queue
             l == left.link
  <1>1. /\ DrvFits(left, R, w) /\ left.mode = was /\ left.config = d.config
        /\ "sta" \notin m => l = "down"
        /\ "sta" \in m => l = d.link
        /\ "sta" \notin was => l = "down"
    <2>1. CASE "sta" \in m BY <2>1 DEF DrvFits, StationFits
    <2>2. CASE "sta" \notin m BY <2>2, DisconnectFits
    <2> QED BY <2>1, <2>2
  <1>2. Station!Mode(d, m) =
            Station!Post(Station!Post(Station!Post(Station!Post([left EXCEPT !.mode = m],
                                                                ws), wa), cs), ca)
    BY DEF Station!Mode
  <1>3. /\ ws = IF "sta" \in was \ m THEN <<Station!Event("sta stop")>> ELSE <<>>
        /\ wa = IF "ap" \in was \ m THEN <<Station!Event("ap stop")>> ELSE <<>>
        /\ cs = IF "sta" \in m \ was THEN <<Station!Event("sta start")>> ELSE <<>>
        /\ ca = IF "ap" \in m \ was THEN <<Station!Event("ap start")>> ELSE <<>>
    BY DEF Station!Stop, Station!Start
  <1>4. /\ ws \in Seq(StationEvents) /\ wa \in Seq(StationEvents)
        /\ cs \in Seq(StationEvents) /\ ca \in Seq(StationEvents)
    <2>0. \A e \in StationEvents : <<e>> \in Seq(StationEvents) OBVIOUS
    <2>1. \A id \in StationIds : <<Station!Event(id)>> \in Seq(StationEvents) BY <2>0, EventIs
    <2>2. <<>> \in Seq(StationEvents) OBVIOUS
    <2> HIDE DEF ws, wa, cs, ca
    <2> QED BY <1>3, <2>1, <2>2 DEF StationIds
  <1>5. /\ "sta" \in m1 <=> "sta" \in was /\ "sta" \in m
        /\ "ap" \in m1 <=> "ap" \in was
        /\ "sta" \in m2 <=> "sta" \in was /\ "sta" \in m
        /\ "ap" \in m2 <=> "ap" \in was /\ "ap" \in m
        /\ "sta" \in m3 <=> "sta" \in m
        /\ "ap" \in m3 <=> "ap" \in was /\ "ap" \in m
    OBVIOUS
  <1>6. q \in Seq(StationEvents) /\ StationFits(was, l, q, R, w)
    BY <1>1 DEF DrvFits, StationFits
  <1> HIDE DEF ws, wa, cs, ca, m1, m2, m3, q, l, left, was
  <1>7. StationFits(m1, l, q \o ws, R, w)
    <2>1. CASE ws = <<>> /\ ~("sta" \in was \ m)
      BY <1>5, <1>6, <2>1, FitsSame, EmptyJoins
    <2>2. CASE ws = <<Station!Event("sta stop")>> /\ "sta" \in was \ m
      BY <1>1, <1>5, <1>6, <2>2, FitsStaStop
    <2> QED BY <1>3, <2>1, <2>2
  <1>8. StationFits(m2, l, (q \o ws) \o wa, R, w)
    <2>0. q \o ws \in Seq(StationEvents) BY <1>4, <1>6, SeqJoins
    <2>1. CASE wa = <<>> /\ ~("ap" \in was \ m)
      BY <1>5, <1>7, <2>0, <2>1, FitsSame, EmptyJoins
    <2>2. CASE wa = <<Station!Event("ap stop")>> /\ "ap" \in was \ m
      BY <1>5, <1>7, <2>0, <2>2, FitsAp
    <2> QED BY <1>3, <2>1, <2>2
  <1>9. StationFits(m3, l, ((q \o ws) \o wa) \o cs, R, w)
    <2>0. (q \o ws) \o wa \in Seq(StationEvents) BY <1>4, <1>6, SeqJoins
    <2>1. CASE cs = <<>> /\ ~("sta" \in m \ was)
      BY <1>5, <1>8, <2>0, <2>1, FitsSame, EmptyJoins
    <2>2. CASE cs = <<Station!Event("sta start")>> /\ "sta" \in m \ was
      BY <1>1, <1>5, <1>8, <2>0, <2>2, FitsStaStart
    <2> QED BY <1>3, <2>1, <2>2
  <1>10. StationFits(m, l, (((q \o ws) \o wa) \o cs) \o ca, R, w)
    <2>0. ((q \o ws) \o wa) \o cs \in Seq(StationEvents) BY <1>4, <1>6, SeqJoins
    <2>1. CASE ca = <<>> /\ ~("ap" \in m \ was)
      BY <1>5, <1>9, <2>0, <2>1, FitsSame, EmptyJoins
    <2>2. CASE ca = <<Station!Event("ap start")>> /\ "ap" \in m \ was
      BY <1>5, <1>9, <2>0, <2>2, FitsAp
    <2> QED BY <1>3, <2>1, <2>2
  <1>12. left = [mode |-> was, config |-> d.config, link |-> l, queue |-> q]
    BY <1>1 DEF DrvFits, DrvShape, q, l
  <1> DEFINE q1 == q \o ws
             q2 == q1 \o wa
             q3 == q2 \o cs
             q4 == q3 \o ca
             Of(x) == [mode |-> m, config |-> d.config, link |-> l, queue |-> x]
  <1>13. Station!Mode(d, m) = Of(q4)
    <2>1. [left EXCEPT !.mode = m] = Of(q) BY <1>12
    <2>2. ASSUME NEW x, NEW es PROVE Station!Post(Of(x), es) = Of(x \o es)
      <3>1. Of(x).queue = x /\ \A y : [Of(x) EXCEPT !.queue = y] = Of(y) OBVIOUS
      <3> HIDE DEF Of
      <3> QED BY <3>1 DEF Station!Post
    <2>3. Station!Post(Of(q), ws) = Of(q1) BY <2>2
    <2>4. Station!Post(Of(q1), wa) = Of(q2) BY <2>2
    <2>5. Station!Post(Of(q2), cs) = Of(q3) BY <2>2
    <2>6. Station!Post(Of(q3), ca) = Of(q4) BY <2>2
    <2> HIDE DEF Of, q1, q2, q3, q4
    <2> QED BY <1>2, <2>1, <2>3, <2>4, <2>5, <2>6
  <1>14. StationFits(m, l, q4, R, w) BY <1>10
  <1> HIDE DEF q4
  <1> QED BY <1>1, <1>13, <1>14 DEF DrvFits, DrvShape

LEMMA EnableSTAFits ==
  ASSUME NEW R, NEW w, Calm(R), NEW d, DrvFits(d, R, w)
  PROVE  LET e == Station!EnableSTA(d) IN DrvFits(e, R, w) /\ "sta" \in e.mode
  BY ModeFits DEF Station!EnableSTA

LEMMA EnableAPFits ==
  ASSUME NEW R, NEW w, Calm(R), NEW d, DrvFits(d, R, w), NEW on
  PROVE  DrvFits(Station!EnableAP(d, on), R, w)
  BY ModeFits DEF Station!EnableAP

LEMMA BeginStoredFits ==
  ASSUME NEW R, NEW w, Calm(R), NEW d, DrvFits(d, R, w)
  PROVE  DrvFits(Station!BeginStored(d), R, w)
  BY EnableSTAFits, ConnectFits DEF Station!BeginStored

LEMMA BeginFits ==
  ASSUME NEW R, NEW w, Calm(R), NEW d, DrvFits(d, R, w), NEW n
  PROVE  DrvFits(Station!Begin(d, n), R, w)
  <1> DEFINE on == Station!EnableSTA(d)
             off == Station!Disconnect(on)
             new == [off EXCEPT !.config = n]
  <1>1. DrvFits(on, R, w) /\ "sta" \in on.mode BY EnableSTAFits
  <1> HIDE DEF on
  <1>2. DrvFits(off, R, w) /\ off.mode = on.mode BY <1>1, DisconnectFits
  <1> HIDE DEF off
  <1>3. DrvFits(new, R, w) /\ new.mode = on.mode BY <1>2, ConfigFits
  <1> HIDE DEF new
  <1>4. DrvFits(Station!Connect(new), R, w) /\ DrvFits(Station!Connect(on), R, w)
    BY <1>1, <1>3, ConnectFits
  <1> QED BY <1>1, <1>4 DEF Station!Begin, on, off, new

LEMMA LeaveFits ==
  ASSUME NEW R, NEW w, Calm(R), NEW d, DrvFits(d, R, w), NEW off, NEW erase
  PROVE  DrvFits(Station!Leave(d, off, erase), R, w)
  <1> DEFINE n == IF erase THEN Station!NoNet ELSE d.config
             e == [d EXCEPT !.config = n]
             left == Station!Disconnect(e)
  <1> HIDE DEF n
  <1>1. DrvFits(e, R, w) BY ConfigFits
  <1>2. e = [d EXCEPT !.config = IF erase THEN Station!NoNet ELSE @] BY DEF n
  <1> HIDE DEF e
  <1>3. DrvFits(left, R, w) BY <1>1, DisconnectFits
  <1> HIDE DEF left
  <1>4. DrvFits(Station!Mode(left, left.mode \ {"sta"}), R, w) BY <1>3, ModeFits
  <1> QED BY <1>2, <1>3, <1>4 DEF Station!Leave, left

LEMMA StationFitsDrv ==
  ASSUME StationInv
  PROVE  DrvFits(drv, StationQuiet, StationWas) /\ Calm(StationQuiet)
  BY DEF StationInv, DrvFits, DrvShape, StationQuiet, Calm

LEMMA FitsFewer ==
  ASSUME NEW m, NEW l, NEW q, NEW R, NEW w, StationFits(m, l, q, R, w), NEW S, S \subseteq R
  PROVE  StationFits(m, l, q, S, w)
  BY DEF StationFits

\* A call of the program; it is quiet from then on unless a loss is still queued.
StationCalm == IF quiet \/ ~Station!LossPending THEN Station!Retried ELSE {}
LEMMA CallFrom ==
  ASSUME StationInv
  PROVE  DrvFits(drv, StationCalm, StationWas) /\ Calm(StationCalm)
  <1>1. StationFits(drv.mode, drv.link, drv.queue, StationQuiet, StationWas) BY DEF StationInv
  <1>2. CASE quiet BY <1>2, StationFitsDrv DEF StationCalm, StationQuiet
  <1>3. CASE ~quiet /\ Station!LossPending
    <2>1. StationCalm = {} BY <1>3 DEF StationCalm
    <2>2. StationFits(drv.mode, drv.link, drv.queue, {}, StationWas) BY <1>1, FitsFewer
    <2> QED BY <2>1, <2>2 DEF StationInv, DrvFits, DrvShape, Calm
  <1>4. CASE ~quiet /\ ~Station!LossPending
    <2>1. StationCalm = Station!Retried BY <1>4 DEF StationCalm
    <2>2. drv.queue \in Seq(StationEvents) BY <1>1 DEF StationFits
    <2>3. \A i \in DOMAIN drv.queue : drv.queue[i].reason \notin Station!Retried
      BY <1>4, <2>2 DEF Station!LossPending
    <2>4. StationFits(drv.mode, drv.link, drv.queue, Station!Retried, StationWas)
      BY <1>1, <2>3 DEF StationFits
    <2> QED BY <2>1, <2>4 DEF StationInv, DrvFits, DrvShape, Calm
  <1> QED BY <1>2, <1>3, <1>4

LEMMA WasSame ==
  ASSUME UNCHANGED <<staBits, status, staTask, expired>> PROVE StationWas' = StationWas
  BY DEF StationWas, BitThen, StatusThen, ExpiryThen, Hand

LEMMA CallKeeps ==
  ASSUME StationInv, NEW d, Station!Call(d), DrvFits(d, StationCalm, StationWas)
  PROVE  StationInv'
  <1>1. /\ drv' = d /\ UNCHANGED <<staBits, status, staTask, expired>>
        /\ quiet' => "sta" \notin d.mode /\ (quiet \/ ~Station!LossPending)
    BY DEF Station!Call
  <1>2. StationWas' = StationWas BY <1>1, WasSame
  <1>3. StationQuiet' \subseteq StationCalm BY <1>1 DEF StationQuiet, StationCalm
  <1>4. StationFits(d.mode, d.link, d.queue, StationQuiet', StationWas')
    BY <1>2, <1>3, FitsFewer DEF DrvFits
  <1>5. staTask.at # "rest" => staTask.event.reason \notin StationCalm
    BY DEF StationInv, StationTask, StationQuiet, StationCalm, Station!LossPending
  <1>6. StationTask' BY <1>1, <1>3, <1>5 DEF StationInv, StationTask
  <1> QED BY <1>1, <1>4, <1>6 DEF StationInv, DrvFits, DrvShape

LEMMA StationProgram == ASSUME StationInv, Station!Program PROVE StationInv'
  <1> DEFINE R == StationCalm
             w == StationWas
  <1>0. DrvFits(drv, R, w) /\ Calm(R) BY CallFrom
  <1> HIDE DEF R, w
  <1>1. ASSUME NEW m, Station!SetMode(m) PROVE StationInv'
    BY <1>0, <1>1, ModeFits, CallKeeps DEF Station!SetMode, R, w
  <1>2. ASSUME NEW n, Station!BeginNetwork(n) PROVE StationInv'
    BY <1>0, <1>2, BeginFits, CallKeeps DEF Station!BeginNetwork, R, w
  <1>3. CASE Station!BeginAgain
    BY <1>0, <1>3, BeginStoredFits, CallKeeps DEF Station!BeginAgain, R, w
  <1>4. CASE Station!Reconnect
    <2>1. DrvFits(Station!Disconnect(drv), R, w) /\ "sta" \in Station!Disconnect(drv).mode
      BY <1>0, <1>4, DisconnectFits DEF Station!Reconnect
    <2>2. DrvFits(Station!Connect(Station!Disconnect(drv)), R, w) BY <2>1, ConnectFits
    <2> QED BY <1>4, <2>2, CallKeeps DEF Station!Reconnect, R, w
  <1>5. ASSUME NEW off, NEW erase, Station!DisconnectSta(off, erase) PROVE StationInv'
    BY <1>0, <1>5, LeaveFits, CallKeeps DEF Station!DisconnectSta, R, w
  <1>6. ASSUME NEW b, Station!Config(b) \/ Station!SetAutoReconnect(b) \/ Station!SoftAPDisconnect(b)
        PROVE  StationInv'
    <2>1. CASE Station!Config(b)
      BY <1>0, <2>1, EnableSTAFits, CallKeeps DEF Station!Config, R, w
    <2>2. CASE Station!SetAutoReconnect(b)
      BY <1>0, <2>2, CallKeeps DEF Station!SetAutoReconnect, R, w
    <2>3. CASE Station!SoftAPDisconnect(b)
      <3>1. DrvFits(Station!EnableAP(drv, FALSE), R, w) BY <1>0, EnableAPFits
      <3>2. Station!Call(Station!EnableAP(drv, FALSE)) \/ Station!Call(drv)
        BY <2>3 DEF Station!SoftAPDisconnect
      <3> QED BY <1>0, <3>1, <3>2, CallKeeps DEF R, w
    <2> QED BY <1>6, <2>1, <2>2, <2>3
  <1>7. CASE Station!SoftAP
    BY <1>0, <1>7, EnableAPFits, CallKeeps DEF Station!SoftAP, R, w
  <1>8. CASE Station!BeginSmartConfig
    <2>1. DrvFits(Station!Mode(drv, {"sta"}), R, w) BY <1>0, ModeFits
    <2>2. DrvFits(Station!Disconnect(Station!Mode(drv, {"sta"})), R, w)
      BY <1>0, <2>1, DisconnectFits
    <2> QED BY <1>8, <2>2, CallKeeps DEF Station!BeginSmartConfig, R, w
  <1>9. CASE Station!StopSmartConfig
    BY <1>0, <1>9, CallKeeps DEF Station!StopSmartConfig, R, w
  <1>10. ASSUME NEW n, Station!SmartConfigLink(n) PROVE StationInv'
    <2> DEFINE e == [drv EXCEPT !.config = n]
               d == Station!Connect(e)
    <2>1. DrvFits(e, StationQuiet, StationWas) /\ e.mode = drv.mode
      BY StationFitsDrv, ConfigFits
    <2>2. /\ drv' = d /\ "sta" \in drv.mode
          /\ UNCHANGED <<staBits, status, staTask, expired, quiet>>
      BY <1>10 DEF Station!SmartConfigLink
    <2> HIDE DEF e
    <2>3. DrvFits(d, StationQuiet, StationWas) /\ d.mode = drv.mode
      BY <2>1, <2>2, ConnectFits
    <2>4. StationWas' = StationWas BY <2>2, WasSame
    <2>5. StationQuiet' = StationQuiet BY <2>2 DEF StationQuiet
    <2>6. StationTask' BY <2>2, <2>5 DEF StationInv, StationTask
    <2> HIDE DEF d
    <2> QED BY <2>2, <2>3, <2>4, <2>5, <2>6 DEF StationInv, DrvFits, DrvShape
  <1>11. CASE Station!SmartConfigOver
    <2>1. UNCHANGED <<drv, staBits, status, staTask, expired, quiet>>
      BY <1>11 DEF Station!SmartConfigOver
    <2>2. StationWas' = StationWas /\ StationQuiet' = StationQuiet
      BY <2>1, WasSame DEF StationQuiet
    <2> QED BY <2>1, <2>2 DEF StationInv, StationTask
  <1> QED
    BY <1>1, <1>2, <1>3, <1>4, <1>5, <1>6, <1>7, <1>8, <1>9, <1>10, <1>11 DEF Station!Program

\* What the radio does, told by one event.
LEMMA RadioFits ==
  ASSUME StationInv, NEW l, NEW k, NEW e, drv.link = l, l # "down",
         Station!Radio(k, <<e>>), UNCHANGED <<staBits, status, staTask, expired, quiet>>,
         \A q : StationFits(drv.mode, l, q, {}, StationWas)
                    => StationFits(drv.mode, k, q \o <<e>>, {}, StationWas)
  PROVE  StationInv'
  <1>1. ~quiet /\ StationQuiet = {} /\ StationQuiet' = {}
    BY DEF StationInv, StationFits, StationQuiet
  <1>2. StationFits(drv.mode, l, drv.queue, {}, StationWas) BY <1>1 DEF StationInv
  <1> DEFINE q == drv.queue \o <<e>>
  <1>3. StationFits(drv.mode, k, q, {}, StationWas) BY <1>2
  <1>4. drv' = [mode |-> drv.mode, config |-> drv.config, link |-> k, queue |-> q]
    BY DEF Station!Radio, Station!Post, StationInv
  <1> HIDE DEF q
  <1>5. drv'.mode = drv.mode /\ drv'.link = k /\ drv'.queue = q
        /\ drv' = [mode |-> drv'.mode, config |-> drv'.config, link |-> drv'.link,
                   queue |-> drv'.queue]
    BY <1>4
  <1>6. StationWas' = StationWas BY WasSame
  <1>7. StationTask' BY <1>1 DEF StationInv, StationTask
  <1> QED BY <1>1, <1>3, <1>5, <1>6, <1>7 DEF StationInv

LEMMA FitsRadio ==
  ASSUME NEW m, NEW q, NEW w
  PROVE  /\ StationFits(m, "joining", q, {}, w)
                => StationFits(m, "joined", q \o <<Station!Event("sta connected")>>, {}, w)
         /\ StationFits(m, "joined", q, {}, w)
                => StationFits(m, "up", q \o <<Station!Event("got ip")>>, {}, w)
         /\ StationFits(m, "up", q, {}, w)
                => StationFits(m, "joined", q \o <<Station!Event("lost ip")>>, {}, w)
  <1> DEFINE c == Station!Event("sta connected")
             g == Station!Event("got ip")
             t == Station!Event("lost ip")
  <1>0. "sta connected" \in StationIds /\ "got ip" \in StationIds /\ "lost ip" \in StationIds
    BY DEF StationIds
  <1>1. c \in StationEvents /\ g \in StationEvents /\ t \in StationEvents BY <1>0, EventIs
  <1>2. /\ StartedBy[c] = "keep" /\ ConnectedBy[c] = "on" /\ AddressBy[c] = "keep"
        /\ ApBy[c] = "keep" /\ SaysBy[c] = "off"
    BY <1>0, EventDoes DEF Does
  <1>3. /\ StartedBy[g] = "keep" /\ ConnectedBy[g] = "on" /\ AddressBy[g] = "on"
        /\ ApBy[g] = "keep" /\ SaysBy[g] = "on"
    BY <1>0, EventDoes DEF Does
  <1>4. /\ StartedBy[t] = "keep" /\ ConnectedBy[t] = "keep" /\ AddressBy[t] = "off"
        /\ ApBy[t] = "keep" /\ SaysBy[t] = "off"
    BY <1>0, EventDoes DEF Does
  <1> HIDE DEF c, g, t
  <1>5. \A l : l # "down" /\ StationFits(m, l, q, {}, w) => "sta" \in m BY DEF StationFits
  <1>6. StationFits(m, "joining", q, {}, w) => StationFits(m, "joined", q \o <<c>>, {}, w)
    BY <1>1, <1>2, <1>5, FitsMore DEF OnOff
  <1>7. StationFits(m, "joined", q, {}, w) => StationFits(m, "up", q \o <<g>>, {}, w)
    BY <1>1, <1>3, <1>5, FitsMore DEF OnOff
  <1>8. StationFits(m, "up", q, {}, w) => StationFits(m, "joined", q \o <<t>>, {}, w)
    BY <1>1, <1>4, <1>5, FitsMore DEF OnOff
  <1> QED BY <1>6, <1>7, <1>8 DEF c, g, t

LEMMA StationRadio ==
  ASSUME StationInv,
         \/ Station!Joins \/ Station!GetsAddress \/ Station!LosesAddress
         \/ \E r \in Station!Reasons : Station!Loses(r)
  PROVE  StationInv'
  <1>1. CASE Station!Joins
    <2>1. UNCHANGED <<staBits, status, staTask, expired, quiet>>
      BY <1>1 DEF Station!Joins, Station!Radio
    <2> QED BY <1>1, <2>1, RadioFits, FitsRadio DEF Station!Joins
  <1>2. CASE Station!GetsAddress
    <2>1. UNCHANGED <<staBits, status, staTask, expired, quiet>>
      BY <1>2 DEF Station!GetsAddress, Station!Radio
    <2> QED BY <1>2, <2>1, RadioFits, FitsRadio DEF Station!GetsAddress
  <1>3. CASE Station!LosesAddress
    <2>1. UNCHANGED <<staBits, status, staTask, expired, quiet>>
      BY <1>3 DEF Station!LosesAddress, Station!Radio
    <2> QED BY <1>3, <2>1, RadioFits, FitsRadio DEF Station!LosesAddress
  <1>4. ASSUME NEW r \in Station!Reasons, Station!Loses(r) PROVE StationInv'
    <2>1. UNCHANGED <<staBits, status, staTask, expired, quiet>> /\ drv.link # "down"
          /\ Station!Radio("down", <<Station!Loss(r)>>)
      BY <1>4 DEF Station!Loses, Station!Radio
    <2>2. \A m, l, q, w : StationFits(m, l, q, {}, w)
                => StationFits(m, "down", q \o <<Station!Loss(r)>>, {}, w)
      BY FitsLeaves
    <2> QED BY <2>1, <2>2, RadioFits
  <1> QED BY <1>1, <1>2, <1>3, <1>4

\* The event task takes the first event: it is at hand from then on.
LEMMA FitsTake ==
  ASSUME NEW m, NEW l, NEW q, q # <<>>, NEW R, NEW w, StationFits(m, l, q, R, w),
         NEW v, /\ v.started = After(StartedBy, Head(q), w.started)
                /\ v.connected = After(ConnectedBy, Head(q), w.connected)
                /\ v.address = After(AddressBy, Head(q), w.address)
                /\ v.ap = After(ApBy, Head(q), w.ap)
                /\ v.says = After(SaysBy, Head(q), w.says)
                /\ v.expiry = After(ExpiryBy, Head(q), w.expiry)
  PROVE  /\ StationFits(m, l, Tail(q), R, v)
         /\ Head(q) \in StationEvents /\ Head(q).reason \notin R
  <1>1. /\ q \in Seq(StationEvents) /\ Tail(q) \in Seq(StationEvents)
        /\ Head(q) \in StationEvents /\ Head(q) = q[1] /\ 1 \in DOMAIN q
        /\ \A i \in DOMAIN Tail(q) : Tail(q)[i] = q[i + 1] /\ i + 1 \in DOMAIN q
    BY DEF StationFits
  <1>2. Head(q) # Station!NoEvent BY <1>1, StationReasons
  <1>3. \A f, was, now : now # "keep" /\ Told(f, q, was, now)
            => Told(f, Tail(q), After(f, Head(q), was), now)
    BY <1>1, <1>2, ToldHead
  <1>4. \A b : OnOff(b) # "keep" BY DEF OnOff
  <1>5. \A i \in DOMAIN Tail(q) : Tail(q)[i].reason \notin R BY <1>1 DEF StationFits
  <1>6. Head(q).reason \notin R BY <1>1 DEF StationFits
  <1>7. /\ Told(StartedBy, q, w.started, OnOff("sta" \in m))
        /\ Told(ConnectedBy, q, w.connected, OnOff(l \in {"joined", "up"}))
        /\ Told(AddressBy, q, w.address, OnOff(l = "up"))
        /\ Told(ApBy, q, w.ap, OnOff("ap" \in m))
        /\ l = "up" => Told(SaysBy, q, w.says, "on")
        /\ l # "up" => Told(SaysBy, q, w.says, "off") \/ Told(ExpiryBy, q, w.expiry, "on")
        /\ "sta" \notin m => l = "down"
    BY DEF StationFits
  <1>8. /\ Told(StartedBy, Tail(q), v.started, OnOff("sta" \in m))
        /\ Told(ConnectedBy, Tail(q), v.connected, OnOff(l \in {"joined", "up"}))
        /\ Told(AddressBy, Tail(q), v.address, OnOff(l = "up"))
        /\ Told(ApBy, Tail(q), v.ap, OnOff("ap" \in m))
    BY <1>3, <1>7 DEF OnOff
  <1>9. /\ l = "up" => Told(SaysBy, Tail(q), v.says, "on")
        /\ l # "up" => Told(SaysBy, Tail(q), v.says, "off") \/ Told(ExpiryBy, Tail(q), v.expiry, "on")
    BY <1>3, <1>7
  <1> QED BY <1>1, <1>5, <1>6, <1>7, <1>8, <1>9 DEF StationFits

LEMMA StationTakes == ASSUME StationInv, Station!Take PROVE StationInv'
  <1> DEFINE q == drv.queue
             e == Head(q)
             R == StationQuiet
  <1>1. /\ staTask.at = "rest" /\ q # <<>>
        /\ UNCHANGED <<staBits, expired, quiet>>
        /\ drv' = [drv EXCEPT !.queue = Tail(@)]
        /\ staTask' = [at |-> IF Station!SetsStatus(e) THEN "status" ELSE "bits", event |-> e]
        /\ status' = IF Station!SetsStatus(e) THEN "idle" ELSE status
    BY DEF Station!Take
  <1>2. StationFits(drv.mode, drv.link, q, R, StationWas) BY DEF StationInv
  <1>3. e \in StationEvents BY <1>1, <1>2 DEF StationFits
  <1>4. staTask'.event = e /\ staTask'.at = IF Station!SetsStatus(e) THEN "status" ELSE "bits"
    BY <1>1
  <1>5. /\ Hand({"status", "bits"}) = Station!NoEvent /\ Hand({"status"}) = Station!NoEvent
        /\ Hand({"status", "bits"})' = e
        /\ Hand({"status"})' = IF Station!SetsStatus(e) THEN e ELSE Station!NoEvent
    BY <1>1, <1>4 DEF Hand
  <1>6. e # Station!NoEvent /\ (SaysBy[e] = "keep" <=> ~Station!SetsStatus(e))
    BY <1>3, StationReasons DEF SaysBy
  <1> HIDE DEF q, e
  <1>7. /\ StationWas.started = OnOff("sta started" \in staBits)
        /\ StationWas.connected = OnOff("sta connected" \in staBits)
        /\ StationWas.address = OnOff("sta ip" \in staBits)
        /\ StationWas.ap = OnOff("ap started" \in staBits)
        /\ StationWas.says = OnOff(status = "connected")
        /\ StationWas.expiry = OnOff(expired)
    BY <1>5 DEF StationWas, BitThen, StatusThen, ExpiryThen, After
  <1>8. /\ StationWas'.started = After(StartedBy, e, OnOff("sta started" \in staBits))
        /\ StationWas'.connected = After(ConnectedBy, e, OnOff("sta connected" \in staBits))
        /\ StationWas'.address = After(AddressBy, e, OnOff("sta ip" \in staBits))
        /\ StationWas'.ap = After(ApBy, e, OnOff("ap started" \in staBits))
        /\ StationWas'.expiry = After(ExpiryBy, e, OnOff(expired))
    BY <1>1, <1>5 DEF StationWas, BitThen, ExpiryThen
  <1>9. StationWas'.says = After(SaysBy, e, OnOff(status = "connected"))
    <2>1. StationWas'.says = After(SaysBy, Hand({"status"})', OnOff(status' = "connected"))
      BY DEF StationWas, StatusThen
    <2>2. CASE Station!SetsStatus(e)
      BY <1>5, <1>6, <2>1, <2>2 DEF After
    <2>3. CASE ~Station!SetsStatus(e)
      BY <1>1, <1>5, <1>6, <2>1, <2>3 DEF After, e
    <2> QED BY <2>2, <2>3
  <1> DEFINE w == StationWas
             v == StationWas'
  <1>10. StationFits(drv.mode, drv.link, Tail(q), R, v) /\ e.reason \notin R
    <2>1. /\ v.started = After(StartedBy, e, w.started)
          /\ v.connected = After(ConnectedBy, e, w.connected)
          /\ v.address = After(AddressBy, e, w.address)
          /\ v.ap = After(ApBy, e, w.ap)
          /\ v.says = After(SaysBy, e, w.says)
          /\ v.expiry = After(ExpiryBy, e, w.expiry)
      BY <1>7, <1>8, <1>9
    <2> HIDE DEF w, v
    <2> QED BY <1>1, <1>2, <2>1, FitsTake DEF e, w, q
  <1>11. drv' = [mode |-> drv.mode, config |-> drv.config, link |-> drv.link, queue |-> Tail(q)]
    BY <1>1 DEF StationInv, q
  <1>12. R' = R BY <1>1 DEF StationQuiet
  <1>13. StationTask'
    <2>1. staTask' = [at |-> staTask'.at, event |-> staTask'.event] BY <1>1
    <2>2. staTask'.at = "bits" => ~Station!SetsStatus(staTask'.event) BY <1>4
    <2>3. staTask'.at = "status" => Station!SetsStatus(staTask'.event) BY <1>4
    <2>4. staTask'.at \in {"status", "bits"} BY <1>4
    <2> QED BY <1>3, <1>4, <1>10, <1>12, <2>1, <2>2, <2>3, <2>4 DEF StationTask, e, q
  <1>14. quiet' => "sta" \notin drv'.mode BY <1>1, <1>11 DEF StationInv
  <1> QED BY <1>10, <1>11, <1>12, <1>13, <1>14 DEF StationInv

\* The status that an event sets, and its bits, are those it is said to bring.
LEMMA StatusSays ==
  ASSUME NEW e \in StationEvents, Station!SetsStatus(e)
  PROVE  Station!StatusOf(e) = "connected" <=> SaysBy[e] = "on"
  <1>1. SaysBy[e] = IF e.id = "got ip" THEN "on" ELSE "off" BY DEF SaysBy
  <1>2. ASSUME NEW id \in StationIds, e = Station!Event(id)
        PROVE  Station!StatusOf(e) = "connected" <=> e.id = "got ip"
    <2>1. e.id = id /\ e.reason = "" BY <1>2, EventIs
    <2>2. "" \notin DOMAIN Station!StatusAfter BY DEF Station!StatusAfter
    <2>3. id \in {"sta start", "sta stop", "sta connected", "got ip", "lost ip"}
      BY <2>1 DEF StationIds, Station!SetsStatus
    <2>4. Station!StatusOf(e) =
            (CASE id = "sta start" -> "disconnected" [] id = "sta stop" -> "no shield"
               [] id = "got ip" -> "connected" [] OTHER -> "idle")
      BY <2>1, <2>2, <2>3 DEF Station!StatusOf
    <2> QED BY <2>1, <2>3, <2>4
  <1>3. ASSUME NEW r \in Station!Reasons, e = Station!Loss(r)
        PROVE  Station!StatusOf(e) = "connected" <=> e.id = "got ip"
    <2>1. e.id = "disconnected" /\ e.reason = r BY <1>3, LossIs
    <2>2. r \in DOMAIN Station!StatusAfter BY <2>1 DEF Station!SetsStatus, Station!Reasons
    <2>3. Station!StatusOf(e) = Station!StatusAfter[r] BY <2>1, <2>2 DEF Station!StatusOf
    <2>4. Station!StatusAfter[r] # "connected"
      <3>1. r \in {"noFound", "authFail", "assocFail", "beacon", "connFail", "leave"}
        BY <2>2 DEF Station!StatusAfter
      <3>2. /\ Station!StatusAfter["noFound"] = "no ssid avail"
            /\ Station!StatusAfter["authFail"] = "connect failed"
            /\ Station!StatusAfter["assocFail"] = "connect failed"
            /\ Station!StatusAfter["beacon"] = "connection lost"
            /\ Station!StatusAfter["connFail"] = "disconnected"
            /\ Station!StatusAfter["leave"] = "disconnected"
        BY DEF Station!StatusAfter
      <3> QED BY <3>1, <3>2
    <2> QED BY <2>1, <2>3, <2>4
  <1>4. (\E id \in StationIds : e = Station!Event(id)) \/ \E r \in Station!Reasons : e = Station!Loss(r)
    BY DEF StationEvents, StationIds
  <1> QED BY <1>1, <1>2, <1>3, <1>4

LEMMA BitsDo ==
  ASSUME NEW e \in StationEvents
  PROVE  /\ OnOff("sta started" \in Station!BitsAfter(e))
               = After(StartedBy, e, OnOff("sta started" \in staBits))
         /\ OnOff("sta connected" \in Station!BitsAfter(e))
               = After(ConnectedBy, e, OnOff("sta connected" \in staBits))
         /\ OnOff("sta ip" \in Station!BitsAfter(e))
               = After(AddressBy, e, OnOff("sta ip" \in staBits))
         /\ OnOff("ap started" \in Station!BitsAfter(e))
               = After(ApBy, e, OnOff("ap started" \in staBits))
  <1>1. e.id \in StationIds \cup {"disconnected"}
    <2>1. ASSUME NEW id \in StationIds, e = Station!Event(id) PROVE e.id \in StationIds
      BY <2>1, EventIs
    <2>2. ASSUME NEW r \in Station!Reasons, e = Station!Loss(r) PROVE e.id = "disconnected"
      BY <2>2, LossIs
    <2> QED BY <2>1, <2>2 DEF StationEvents, StationIds
  <1>2. e # Station!NoEvent BY StationReasons
  <1>3. /\ StartedBy[e] = Does(e.id, {"sta start"}, {"sta stop"})
        /\ ConnectedBy[e] = Does(e.id, {"sta connected", "got ip"}, {"sta stop", "disconnected"})
        /\ AddressBy[e] = Does(e.id, {"got ip"}, {"sta stop", "disconnected", "lost ip"})
        /\ ApBy[e] = Does(e.id, {"ap start"}, {"ap stop"})
    BY DEF StartedBy, ConnectedBy, AddressBy, ApBy
  <1> DEFINE b == Station!BitsAfter(e)
  <1>4. /\ e.id = "sta start" => b = staBits \cup {"sta started"}
        /\ e.id = "sta stop" => b = staBits \ {"sta connected", "sta ip", "sta started"}
        /\ e.id = "sta connected" => b = staBits \cup {"sta connected"}
        /\ e.id = "disconnected" => b = staBits \ {"sta connected", "sta ip"}
        /\ e.id = "got ip" => b = staBits \cup {"sta connected", "sta ip"}
        /\ e.id = "lost ip" => b = staBits \ {"sta ip"}
        /\ e.id = "ap start" => b = staBits \cup {"ap started"}
        /\ e.id = "ap stop" => b = staBits \ {"ap started"}
    BY DEF Station!BitsAfter
  <1> HIDE DEF b
  <1>5. OnOff("sta started" \in b) = After(StartedBy, e, OnOff("sta started" \in staBits))
    BY <1>1, <1>2, <1>3, <1>4 DEF Does, OnOff, After, StationIds
  <1>6. OnOff("sta connected" \in b) = After(ConnectedBy, e, OnOff("sta connected" \in staBits))
    BY <1>1, <1>2, <1>3, <1>4 DEF Does, OnOff, After, StationIds
  <1>7. OnOff("sta ip" \in b) = After(AddressBy, e, OnOff("sta ip" \in staBits))
    BY <1>1, <1>2, <1>3, <1>4 DEF Does, OnOff, After, StationIds
  <1>8. OnOff("ap started" \in b) = After(ApBy, e, OnOff("ap started" \in staBits))
    BY <1>1, <1>2, <1>3, <1>4 DEF Does, OnOff, After, StationIds
  <1> QED BY <1>5, <1>6, <1>7, <1>8 DEF b

LEMMA StationSetsStatus == ASSUME StationInv, Station!SetStatus PROVE StationInv'
  <1> DEFINE e == staTask.event
  <1>1. /\ staTask.at = "status" /\ e \in StationEvents /\ Station!SetsStatus(e)
        /\ UNCHANGED <<drv, staBits, quiet>> /\ ~expired'
        /\ status' = Station!StatusOf(e)
        /\ staTask' = [staTask EXCEPT !.at = "bits"]
    BY DEF Station!SetStatus, StationInv, StationTask
  <1>2. staTask' = [at |-> "bits", event |-> e] BY <1>1 DEF StationInv, StationTask
  <1>3. staTask'.at = "bits" /\ staTask'.event = e BY <1>2
  <1>4. /\ Hand({"status", "bits"}) = e /\ Hand({"status", "bits"})' = e
        /\ Hand({"status"}) = e /\ Hand({"status"})' = Station!NoEvent
    BY <1>1, <1>3 DEF Hand
  <1>5. e # Station!NoEvent /\ SaysBy[e] # "keep" /\ ExpiryBy[e] = "off" /\ SaysBy[e] \in {"on", "off"}
    BY <1>1, StationReasons DEF SaysBy, ExpiryBy, Station!SetsStatus
  <1>6. StatusThen' = SaysBy[e]
    BY <1>1, <1>4, <1>5, StatusSays DEF StatusThen, After, OnOff
  <1>7. StatusThen = SaysBy[e] BY <1>4, <1>5 DEF StatusThen, After
  <1>8. ExpiryThen = "off" /\ ExpiryThen' = "off" BY <1>4, <1>5 DEF ExpiryThen, After
  <1>9. StationWas' = StationWas BY <1>1, <1>4, <1>6, <1>7, <1>8 DEF StationWas, BitThen
  <1>10. StationQuiet' = StationQuiet BY <1>1 DEF StationQuiet
  <1>11. StationTask'
    <2>1. e.reason \notin StationQuiet BY <1>1 DEF StationInv, StationTask
    <2> QED BY <1>1, <1>2, <1>3, <1>10, <2>1 DEF StationTask
  <1> QED BY <1>1, <1>9, <1>10, <1>11 DEF StationInv

LEMMA StationSetsBits == ASSUME StationInv, Station!SetBits PROVE StationInv'
  <1> DEFINE e == staTask.event
  <1>0. /\ staTask.at = "bits" /\ staTask.event \in StationEvents
        /\ Station!SetsStatus(staTask.event) => ~expired
        /\ UNCHANGED <<drv, status, quiet>>
        /\ staBits' = Station!BitsAfter(staTask.event)
        /\ staTask.event.reason \notin StationQuiet
    BY DEF Station!SetBits, StationInv, StationTask
  <1>a. expired' <=> expired \/ staTask.event.reason = "expire" BY DEF Station!SetBits
  <1>1. /\ staTask.at = "bits" /\ e \in StationEvents
        /\ UNCHANGED <<drv, status, quiet>>
        /\ staBits' = Station!BitsAfter(e)
        /\ e.reason \notin StationQuiet
    BY <1>0
  <1>2. \/ /\ e.reason \in Station!Retried /\ staTask' = [staTask EXCEPT !.at = "leave"]
        \/ staTask' = [at |-> "rest", event |-> Station!NoEvent]
    BY DEF Station!SetBits
  <1>3. \/ /\ e.reason \in Station!Retried /\ staTask' = [at |-> "leave", event |-> e]
        \/ staTask' = [at |-> "rest", event |-> Station!NoEvent]
    BY <1>2 DEF StationInv, StationTask
  <1>4. staTask'.at \in {"leave", "rest"} BY <1>3
  <1>5. /\ Hand({"status", "bits"}) = e /\ Hand({"status", "bits"})' = Station!NoEvent
        /\ Hand({"status"}) = Station!NoEvent /\ Hand({"status"})' = Station!NoEvent
    BY <1>1, <1>4 DEF Hand
  <1>6. e # Station!NoEvent BY <1>1, StationReasons
  <1>7. /\ BitThen(StartedBy, "sta started")' = BitThen(StartedBy, "sta started")
        /\ BitThen(ConnectedBy, "sta connected")' = BitThen(ConnectedBy, "sta connected")
        /\ BitThen(AddressBy, "sta ip")' = BitThen(AddressBy, "sta ip")
        /\ BitThen(ApBy, "ap started")' = BitThen(ApBy, "ap started")
    <2>1. \A f, was : After(f, Station!NoEvent, was) = was BY DEF After
    <2>2. /\ BitThen(StartedBy, "sta started") = After(StartedBy, e, OnOff("sta started" \in staBits))
          /\ BitThen(ConnectedBy, "sta connected")
               = After(ConnectedBy, e, OnOff("sta connected" \in staBits))
          /\ BitThen(AddressBy, "sta ip") = After(AddressBy, e, OnOff("sta ip" \in staBits))
          /\ BitThen(ApBy, "ap started") = After(ApBy, e, OnOff("ap started" \in staBits))
      BY <1>5 DEF BitThen
    <2>3. /\ BitThen(StartedBy, "sta started")' = OnOff("sta started" \in staBits')
          /\ BitThen(ConnectedBy, "sta connected")' = OnOff("sta connected" \in staBits')
          /\ BitThen(AddressBy, "sta ip")' = OnOff("sta ip" \in staBits')
          /\ BitThen(ApBy, "ap started")' = OnOff("ap started" \in staBits')
      BY <1>5, <2>1 DEF BitThen
    <2> HIDE DEF e
    <2> QED BY <1>1, <2>2, <2>3, BitsDo
  <1>8. StatusThen' = StatusThen BY <1>1, <1>5 DEF StatusThen
  <1>9. ExpiryThen' = ExpiryThen
    <2>1. ExpiryThen' = OnOff(expired') BY <1>5 DEF ExpiryThen, After
    <2>2. ExpiryThen = IF ExpiryBy[e] = "keep" THEN OnOff(expired) ELSE ExpiryBy[e]
      BY <1>5, <1>6 DEF ExpiryThen, After
    <2>3. ExpiryBy[e] = IF e.reason = "expire" THEN "on"
                        ELSE IF Station!SetsStatus(e) THEN "off" ELSE "keep"
      BY <1>1 DEF ExpiryBy
    <2>4. CASE e.reason = "expire"
      <3>1. OnOff(expired') = "on" BY <1>a, <2>4 DEF OnOff
      <3>2. ExpiryBy[e] = "on" BY <2>3, <2>4
      <3> QED BY <2>1, <2>2, <3>1, <3>2
    <2>5. CASE e.reason # "expire" /\ Station!SetsStatus(e)
      <3>1. OnOff(expired') = "off" BY <1>0, <1>a, <2>5 DEF OnOff
      <3>2. ExpiryBy[e] = "off" BY <2>3, <2>5
      <3> QED BY <2>1, <2>2, <3>1, <3>2
    <2>6. CASE e.reason # "expire" /\ ~Station!SetsStatus(e)
      <3>1. OnOff(expired') = OnOff(expired)
        <4>1. expired' <=> expired BY <1>a, <2>6
        <4> QED BY <4>1 DEF OnOff
      <3>2. ExpiryBy[e] = "keep" BY <2>3, <2>6
      <3> QED BY <2>1, <2>2, <3>1, <3>2
    <2> QED BY <2>4, <2>5, <2>6
  <1>10. StationWas' = StationWas BY <1>7, <1>8, <1>9 DEF StationWas
  <1>11. StationQuiet' = StationQuiet BY <1>1 DEF StationQuiet
  <1>12. StationTask'
    <2>1. CASE e.reason \in Station!Retried /\ staTask' = [at |-> "leave", event |-> e]
      <3>1. staTask'.at = "leave" /\ staTask'.event = e BY <2>1
      <3> QED BY <1>1, <1>11, <2>1, <3>1 DEF StationTask
    <2>2. CASE staTask' = [at |-> "rest", event |-> Station!NoEvent]
      <3>1. staTask'.at = "rest" /\ staTask'.event = Station!NoEvent BY <2>2
      <3> QED BY <2>2, <3>1 DEF StationTask
    <2> QED BY <1>3, <2>1, <2>2
  <1> QED BY <1>1, <1>10, <1>11, <1>12 DEF StationInv

\* The event task disconnects and begins again after a loss: only when that was not turned
\* off meanwhile.
LEMMA TaskKeeps ==
  ASSUME StationInv, staTask.at \in {"leave", "begin"},
         NEW d, drv' = d, DrvFits(d, StationQuiet, StationWas),
         UNCHANGED <<staBits, status, expired, quiet>>,
         \/ staTask' = [at |-> "begin", event |-> staTask.event]
         \/ staTask' = [at |-> "rest", event |-> Station!NoEvent]
  PROVE  StationInv'
  <1>1. staTask'.at \in {"begin", "rest"}
    <2>1. CASE staTask' = [at |-> "begin", event |-> staTask.event] BY <2>1
    <2>2. CASE staTask' = [at |-> "rest", event |-> Station!NoEvent] BY <2>2
    <2> QED BY <2>1, <2>2
  <1>2. /\ Hand({"status", "bits"}) = Station!NoEvent /\ Hand({"status"}) = Station!NoEvent
        /\ Hand({"status", "bits"})' = Station!NoEvent /\ Hand({"status"})' = Station!NoEvent
    BY <1>1 DEF Hand
  <1>3. StationWas' = StationWas
    BY <1>2 DEF StationWas, BitThen, StatusThen, ExpiryThen
  <1>4. StationQuiet' = StationQuiet BY DEF StationQuiet
  <1>5. ~quiet /\ ~quiet' BY DEF StationInv, StationTask, StationQuiet
  <1>6. StationQuiet' = {} BY <1>5 DEF StationQuiet
  <1>7. staTask.event.reason \in Station!Retried BY DEF StationInv, StationTask
  <1>8. StationTask'
    <2>1. CASE staTask' = [at |-> "begin", event |-> staTask.event]
      <3>1. staTask'.at = "begin" /\ staTask'.event = staTask.event BY <2>1
      <3> QED BY <1>6, <1>7, <2>1, <3>1 DEF StationTask
    <2>2. CASE staTask' = [at |-> "rest", event |-> Station!NoEvent]
      <3>1. staTask'.at = "rest" /\ staTask'.event = Station!NoEvent BY <2>2
      <3> QED BY <2>2, <3>1 DEF StationTask
    <2> QED BY <2>1, <2>2
  <1> QED BY <1>3, <1>4, <1>5, <1>8 DEF StationInv, DrvFits, DrvShape

LEMMA StationTasks == ASSUME StationInv, Station!Task PROVE StationInv'
  <1>1. CASE Station!TaskLeaves
    <2> DEFINE d == Station!Leave(drv, FALSE, FALSE)
    <2>1. /\ drv' = d /\ staTask.at = "leave" /\ UNCHANGED <<staBits, status, expired, quiet>>
          /\ staTask' = [staTask EXCEPT !.at = "begin"]
      BY <1>1 DEF Station!TaskLeaves
    <2>2. staTask' = [at |-> "begin", event |-> staTask.event]
      BY <2>1 DEF StationInv, StationTask
    <2>3. DrvFits(d, StationQuiet, StationWas) BY StationFitsDrv, LeaveFits
    <2> HIDE DEF d
    <2> QED BY <2>1, <2>2, <2>3, TaskKeeps
  <1>2. CASE Station!TaskBegins
    <2> DEFINE d == Station!BeginStored(drv)
    <2>1. /\ drv' = d /\ staTask.at = "begin" /\ UNCHANGED <<staBits, status, expired, quiet>>
          /\ staTask' = [at |-> "rest", event |-> Station!NoEvent]
      BY <1>2 DEF Station!TaskBegins
    <2>2. DrvFits(d, StationQuiet, StationWas) BY StationFitsDrv, BeginStoredFits
    <2> HIDE DEF d
    <2> QED BY <2>1, <2>2, TaskKeeps
  <1> QED BY <1>1, <1>2, StationTakes, StationSetsStatus, StationSetsBits DEF Station!Task

LEMMA StationNext == ASSUME StationInv, Station!Next PROVE StationInv'
  BY StationProgram, StationTasks, StationRadio DEF Station!Next

LEMMA StationStands == ASSUME StationInv, UNCHANGED stationVars PROVE StationInv'
  <1>1. UNCHANGED <<drv, staBits, status, staTask, expired, quiet>> BY DEF stationVars
  <1>2. StationWas' = StationWas /\ StationQuiet' = StationQuiet
    BY <1>1, WasSame DEF StationQuiet
  <1> QED BY <1>1, <1>2 DEF StationInv, StationTask

LEMMA StationInit == ASSUME Station!Init PROVE StationInv
  <1>1. /\ drv = [mode |-> {}, config |-> Station!NoNet, link |-> "down", queue |-> <<>>]
        /\ status = "no shield" /\ staBits = {}
        /\ staTask = [at |-> "rest", event |-> Station!NoEvent]
    BY DEF Station!Init
  <1>2. ~expired /\ quiet BY DEF Station!Init
  <1>3. /\ drv.mode = {} /\ drv.config = Station!NoNet /\ drv.link = "down" /\ drv.queue = <<>>
        /\ staTask.at = "rest" /\ staTask.event = Station!NoEvent
    BY <1>1
  <1>4. Station!NoEvent.reason \notin Station!Retried
    BY DEF Station!NoEvent, Station!Event, Station!Retried, Station!Reasons, Station!StatusAfter
  <1>5. Hand({"status", "bits"}) = Station!NoEvent /\ Hand({"status"}) = Station!NoEvent
    BY <1>3 DEF Hand
  <1>6. /\ BitThen(StartedBy, "sta started") = "off" /\ BitThen(ConnectedBy, "sta connected") = "off"
        /\ BitThen(AddressBy, "sta ip") = "off" /\ BitThen(ApBy, "ap started") = "off"
        /\ StatusThen = "off" /\ ExpiryThen = "off"
    BY <1>1, <1>2, <1>5 DEF BitThen, StatusThen, ExpiryThen, After, OnOff
  <1>7. /\ StationWas.started = "off" /\ StationWas.connected = "off"
        /\ StationWas.address = "off" /\ StationWas.ap = "off" /\ StationWas.says = "off"
    BY <1>6 DEF StationWas
  <1>8. \A f, now : Told(f, <<>>, now, now)
    BY DEF Told
  <1>9. StationFits({}, "down", <<>>, StationQuiet, StationWas)
    <2>1. <<>> \in Seq(StationEvents) /\ DOMAIN <<>> = {} OBVIOUS
    <2>2. /\ OnOff("sta" \in {}) = "off" /\ OnOff("ap" \in {}) = "off"
          /\ OnOff("down" \in {"joined", "up"}) = "off" /\ OnOff("down" = "up") = "off"
      BY DEF OnOff
    <2> HIDE DEF Told
    <2> QED BY <1>7, <1>8, <2>1, <2>2 DEF StationFits
  <1>10. StationTask BY <1>1, <1>3, <1>4 DEF StationTask, StationQuiet
  <1> QED BY <1>1, <1>3, <1>9, <1>10 DEF StationInv

\* With no event waiting and none at hand, what was is so.
LEMMA StationTells == StationInv => Station!StatusIsTrue /\ Station!OffStaysOff
  <1> SUFFICES ASSUME StationInv PROVE Station!StatusIsTrue
    BY DEF StationInv, Station!OffStaysOff
  <1> SUFFICES ASSUME drv.queue = <<>>, staTask.at = "rest"
               PROVE  /\ "sta started" \in staBits <=> "sta" \in drv.mode
                      /\ "ap started" \in staBits <=> "ap" \in drv.mode
                      /\ "sta connected" \in staBits <=> drv.link \in {"joined", "up"}
                      /\ "sta ip" \in staBits <=> drv.link = "up"
                      /\ drv.link = "up" => status = "connected"
                      /\ status = "connected" => drv.link = "up" \/ expired
    BY DEF Station!StatusIsTrue
  <1>1. StationFits(drv.mode, drv.link, <<>>, StationQuiet, StationWas) BY DEF StationInv
  <1>2. \A f, was, now : Told(f, <<>>, was, now) => was = now BY DEF Told
  <1>3. Hand({"status", "bits"}) = Station!NoEvent /\ Hand({"status"}) = Station!NoEvent
    BY DEF Hand
  <1>4. /\ StationWas.started = OnOff("sta started" \in staBits)
        /\ StationWas.connected = OnOff("sta connected" \in staBits)
        /\ StationWas.address = OnOff("sta ip" \in staBits)
        /\ StationWas.ap = OnOff("ap started" \in staBits)
        /\ StationWas.says = OnOff(status = "connected")
        /\ StationWas.expiry = OnOff(expired)
    BY <1>3 DEF StationWas, BitThen, StatusThen, ExpiryThen, After
  <1>5. /\ OnOff("sta started" \in staBits) = OnOff("sta" \in drv.mode)
        /\ OnOff("sta connected" \in staBits) = OnOff(drv.link \in {"joined", "up"})
        /\ OnOff("sta ip" \in staBits) = OnOff(drv.link = "up")
        /\ OnOff("ap started" \in staBits) = OnOff("ap" \in drv.mode)
        /\ drv.link = "up" => OnOff(status = "connected") = "on"
        /\ drv.link # "up" => OnOff(status = "connected") = "off" \/ OnOff(expired) = "on"
    BY <1>1, <1>2, <1>4 DEF StationFits
  <1>6. /\ "sta started" \in staBits <=> "sta" \in drv.mode BY <1>5 DEF OnOff
  <1>7. /\ "ap started" \in staBits <=> "ap" \in drv.mode BY <1>5 DEF OnOff
  <1>8. /\ "sta connected" \in staBits <=> drv.link \in {"joined", "up"} BY <1>5 DEF OnOff
  <1>9. /\ "sta ip" \in staBits <=> drv.link = "up" BY <1>5 DEF OnOff
  <1>10. drv.link = "up" => status = "connected" BY <1>5 DEF OnOff
  <1>11. status = "connected" => drv.link = "up" \/ expired
    <2> SUFFICES ASSUME status = "connected", drv.link # "up" PROVE expired OBVIOUS
    <2>1. OnOff(status = "connected") = "on" BY DEF OnOff
    <2>2. OnOff(expired) = "on" BY <1>5, <2>1
    <2> QED BY <2>2 DEF OnOff
  <1> QED BY <1>6, <1>7, <1>8, <1>9, <1>10, <1>11

-----------------------------------------------------------------------------
(* HTTP requests: what is on the connection is the rest of one response, behind the     *)
(* tokens that the call has read of it; so what a call reads is the answer to it.       *)

\* The tokens that responses are made of.
HttpBytes == UNION {{Http!Body(r)[i] : i \in DOMAIN Http!Body(r)} : r \in Responses}
HttpTokens == HttpBytes \cup {Http!HeadToken(r) : r \in Responses}

\* Nothing is on its way; what comes is the rest of s from behind the first p tokens.
Silent(l) == l.in = <<>> /\ l.wire = <<>>
Comes(l, s, p) ==
    /\ p + Len(l.in) + Len(l.wire) <= Len(s)
    /\ \A i \in DOMAIN l.in : l.in[i] = s[p + i]
    /\ \A i \in DOMAIN l.wire : l.wire[i] = s[p + Len(l.in) + i]

\* A connection: one that is late has nothing more to come, as its answers are not kept.
HttpLink(l) ==
    /\ l = [to |-> l.to, wire |-> l.wire, in |-> l.in, closed |-> l.closed, kept |-> l.kept,
            late |-> l.late]
    /\ l.wire \in Seq(HttpTokens) /\ l.in \in Seq(HttpTokens)
    /\ l.to = Http!Nowhere \/ l.late => Silent(l)

\* The call q has read p tokens of the body of the response r.
HttpRead(q, r, p) ==
    \/ q.pc \in {"code", "idle"} /\ p = 0
    \/ /\ ~r.chunked /\ q.pc = "data" /\ q.got \in Nat /\ p = q.got
       /\ \/ r.size = -1 /\ q.left = -1
          \/ r.size = r.body /\ q.left \in Nat /\ q.left + q.got = r.body
    \/ /\ r.chunked /\ q.got \in Nat
       /\ \/ q.pc = "chunk" /\ p = 3 * q.got
          \/ q.pc = "crlf" /\ p = 3 * q.got - 1
          \/ q.pc = "data" /\ q.left = 1 /\ q.got < r.body /\ p = 3 * q.got + 1
          \/ q.pc = "data" /\ q.left = 0 /\ p = 3 * q.got - 1

\* What is on the connection l while the call q, whose answer has the head h, is at each of
\* its places; a call that returned an answer has its body still to come.
InBody == {"chunk", "crlf", "data"}
HttpStream(l, q, h, of) ==
    /\ q.pc \in {"idle", "connect"} => l.wire \in Seq(HttpBytes)
    /\ q.pc = "send" => Silent(l)
    /\ q.pc \in {"upload", "answer", "head"} =>
          Silent(l) \/ \E r \in Responses : Comes(l, Http!Answer(r), 0)
    /\ q.pc \in {"code"} \cup InBody \/ (q.pc = "idle" /\ of = "request") =>
          \/ l.late
          \/ \E r \in Responses, p \in Nat :
                h = Http!Heading(r) /\ HttpRead(q, r, p) /\ Comes(l, Http!Body(r), p)

\* A call that reads an answer reads its own, from the host it was for.
HttpCall(q) ==
    q = [pc |-> q.pc, method |-> q.method, count |-> q.count, left |-> q.left, got |-> q.got,
         right |-> q.right]
HttpOwn ==
    /\ request.pc \in {"code"} \cup InBody => request.right \/ link.late
    /\ outcome.of = "request" => outcome.mine \/ link.late
    /\ outcome.of = "request" => request.pc \in {"idle"} \cup InBody
HttpTo ==
    /\ client \/ link.to = Http!Nowhere
    /\ (Http!Connected \/ request.pc \in {"send", "upload", "answer"}) /\ link.to # Http!Nowhere =>
          Host[link.to] = Host[target] \/ link.kept

HttpPcs == {"idle", "connect", "send", "upload", "answer", "head", "code"} \cup InBody
HttpInv ==
    /\ HttpLink(link) /\ HttpCall(request) /\ request.pc \in HttpPcs
    /\ HttpStream(link, request, response, outcome.of)
    /\ HttpOwn /\ HttpTo /\ Http!ResponseIsOwn

ByteCount(r) == IF r.chunked THEN 3 * r.body + 2 ELSE r.body
LEMMA BodyIs ==
  ASSUME NEW r \in Responses
  PROVE  /\ ByteCount(r) \in Nat /\ Len(Http!Body(r)) = ByteCount(r)
         /\ DOMAIN Http!Body(r) = 1 .. ByteCount(r)
         /\ Http!Body(r) \in Seq(HttpBytes)
  <1> DEFINE b == Http!Body(r)
             n == ByteCount(r)
  <1>1. r.body \in Nat BY LibrarySizes
  <1>2. n \in Nat BY <1>1 DEF ByteCount
  <1>3. \E f : b = [i \in 1 .. n |-> f[i]]
    <2>1. CASE ~r.chunked
      <3>1. b = [i \in 1 .. n |-> Http!Token("byte", i)] BY <2>1 DEF Http!Body, ByteCount
      <3> HIDE DEF b, n
      <3>2. b = [i \in 1 .. n |-> b[i]] BY <3>1
      <3> QED BY <3>2
    <2>2. CASE r.chunked
      <3>1. b = [i \in 1 .. n |->
                  CASE i % 3 = 1 -> Http!Token("chunk", IF i < 3 * r.body THEN 1 ELSE 0)
                    [] i % 3 = 2 /\ i < 3 * r.body -> Http!Token("byte", i \div 3 + 1)
                    [] OTHER -> Http!Token("crlf", 0)]
        BY <2>2 DEF Http!Body, ByteCount
      <3> HIDE DEF b, n
      <3>2. b = [i \in 1 .. n |-> b[i]] BY <3>1
      <3> QED BY <3>2
    <2> QED BY <2>1, <2>2
  <1>4. \A i \in DOMAIN b : b[i] \in HttpBytes BY DEF HttpBytes
  <1> HIDE DEF b, n
  <1>5. b = [i \in 1 .. n |-> b[i]] /\ DOMAIN b = 1 .. n BY <1>3
  <1>6. b \in Seq(HttpBytes) /\ Len(b) = n BY <1>2, <1>4, <1>5
  <1> QED BY <1>2, <1>5, <1>6 DEF b, n

LEMMA TokenIs ==
  ASSUME NEW k, NEW n
  PROVE  LET t == Http!Token(k, n) IN t.kind = k /\ t.n = n /\ t.mine = TRUE
  BY DEF Http!Token

LEMMA HeadIs ==
  ASSUME NEW r \in Responses
  PROVE  LET t == Http!HeadToken(r) IN t.kind = "head" /\ t.mine = TRUE /\ t.head = Http!Heading(r)
  BY DEF Http!HeadToken, Http!Token

LEMMA BodyAt ==
  ASSUME NEW r \in Responses, NEW i \in 1 .. ByteCount(r)
  PROVE  LET t == Http!Body(r)[i]
         IN  /\ t.mine = TRUE /\ t.kind # "head"
             /\ ~r.chunked => t.kind = "byte" /\ t.n = i
             /\ r.chunked /\ i % 3 = 1 => t.kind = "chunk" /\ t.n = IF i < 3 * r.body THEN 1 ELSE 0
             /\ r.chunked /\ i % 3 = 2 /\ i < 3 * r.body => t.kind = "byte" /\ t.n = i \div 3 + 1
  <1>1. CASE ~r.chunked
    <2>1. Http!Body(r)[i] = Http!Token("byte", i) BY <1>1 DEF Http!Body, ByteCount
    <2> DEFINE t == Http!Body(r)[i]
    <2>a. t = Http!Token("byte", i) BY <2>1
    <2> HIDE DEF t
    <2>2. t.kind = "byte" /\ t.n = i /\ t.mine = TRUE BY <2>a, TokenIs
    <2>3. t.kind # "head" BY <2>2
    <2> QED BY ZenonT(60), <1>1, <2>2, <2>3 DEF t
  <1>2. CASE r.chunked
    <2> DEFINE m == IF i < 3 * r.body THEN 1 ELSE 0
               t == Http!Body(r)[i]
    <2>1. t = CASE i % 3 = 1 -> Http!Token("chunk", m)
                [] i % 3 = 2 /\ i < 3 * r.body -> Http!Token("byte", i \div 3 + 1)
                [] OTHER -> Http!Token("crlf", 0)
      BY <1>2 DEF Http!Body, ByteCount
    <2> HIDE DEF t, m
    <2>2. CASE i % 3 = 1
      <3>1. t = Http!Token("chunk", m) BY <2>1, <2>2
      <3>2. t.kind = "chunk" /\ t.n = m /\ t.mine = TRUE BY <3>1, TokenIs
      <3> QED BY <1>2, <2>2, <3>2 DEF t, m
    <2>3. CASE i % 3 # 1 /\ i % 3 = 2 /\ i < 3 * r.body
      <3>1. t = Http!Token("byte", i \div 3 + 1) BY <2>1, <2>3
      <3>2. t.kind = "byte" /\ t.n = i \div 3 + 1 /\ t.mine = TRUE BY <3>1, TokenIs
      <3> QED BY ZenonT(60), <1>2, <2>3, <3>2 DEF t
    <2>4. CASE i % 3 # 1 /\ ~(i % 3 = 2 /\ i < 3 * r.body)
      <3>1. t = Http!Token("crlf", 0) BY <2>1, <2>4
      <3>2. t.kind = "crlf" /\ t.mine = TRUE BY <3>1, TokenIs
      <3> QED BY ZenonT(60), <1>2, <2>4, <3>2 DEF t
    <2> QED BY <2>2, <2>3, <2>4
  <1> QED BY <1>1, <1>2

LEMMA AnswerIs ==
  ASSUME NEW r \in Responses
  PROVE  LET s == Http!Answer(r)
         IN  /\ s \in Seq(HttpTokens) /\ Len(s) = ByteCount(r) + 1 /\ s[1] = Http!HeadToken(r)
             /\ \A i \in 1 .. ByteCount(r) : s[1 + i] = Http!Body(r)[i]
  <1> DEFINE b == Http!Body(r)
             h == Http!HeadToken(r)
  <1>1. b \in Seq(HttpTokens) /\ Len(b) = ByteCount(r) /\ ByteCount(r) \in Nat
    <2>1. b \in Seq(HttpBytes) /\ HttpBytes \subseteq HttpTokens BY BodyIs DEF HttpTokens
    <2> QED BY <2>1, BodyIs
  <1>2. h \in HttpTokens BY DEF HttpTokens
  <1>3. Http!Answer(r) = <<h>> \o b BY DEF Http!Answer
  <1> HIDE DEF b, h
  <1>4. /\ <<h>> \o b \in Seq(HttpTokens) /\ Len(<<h>> \o b) = ByteCount(r) + 1
        /\ (<<h>> \o b)[1] = h /\ \A i \in 1 .. ByteCount(r) : (<<h>> \o b)[1 + i] = b[i]
    BY <1>1, <1>2
  <1> QED BY <1>3, <1>4 DEF b, h

-----------------------------------------------------------------------------
\* Steps of a connection: a token arrives, the wire is cut short, a token is read.
Wired(l) == l.wire \in Seq(HttpTokens) /\ l.in \in Seq(HttpTokens)
Arrives(l, k) == k.in = Append(l.in, Head(l.wire)) /\ k.wire = Tail(l.wire) /\ l.wire # <<>>
Closes(l, k, n) == n \in 0 .. Len(l.wire) /\ k.in = l.in /\ k.wire = SubSeq(l.wire, 1, n)
Reads(l, k) == k.wire = l.wire /\ k.in = Tail(l.in) /\ l.in # <<>>

LEMMA ComesArrives ==
  ASSUME NEW l, Wired(l), NEW k, Arrives(l, k)
  PROVE  /\ Wired(k)
         /\ \A s, p : p \in Nat /\ Len(s) \in Nat /\ Comes(l, s, p) => Comes(k, s, p)
  <1> DEFINE a == l.in
             w == l.wire
             m == Len(l.in)
             n == Len(l.wire)
  <1>1. /\ Len(k.in) = m + 1 /\ Len(k.wire) = n - 1
        /\ DOMAIN k.in = 1 .. m + 1 /\ DOMAIN k.wire = 1 .. n - 1
        /\ DOMAIN a = 1 .. m /\ DOMAIN w = 1 .. n
        /\ k.in[m + 1] = w[1] /\ \A i \in 1 .. m : k.in[i] = a[i]
        /\ \A i \in 1 .. n - 1 : k.wire[i] = w[i + 1]
        /\ Wired(k)
    BY DEF Wired, Arrives
  <1>2. m \in Nat /\ n \in Nat /\ n > 0 BY DEF Wired, Arrives
  <1> SUFFICES ASSUME NEW s, NEW p \in Nat, Len(s) \in Nat, Comes(l, s, p)
               PROVE  Comes(k, s, p)
    BY <1>1
  <1>3. /\ p + m + n <= Len(s) /\ \A i \in DOMAIN a : a[i] = s[p + i]
        /\ \A i \in DOMAIN w : w[i] = s[p + m + i]
    BY DEF Comes
  <1> HIDE DEF m, n, a, w
  <1>4. p + Len(k.in) + Len(k.wire) <= Len(s)
    <2>1. Len(k.in) = m + 1 /\ Len(k.wire) = n - 1 BY <1>1
    <2>2. p + m + n <= Len(s) BY <1>3
    <2>3. p + (m + 1) + (n - 1) <= Len(s) BY <1>2, <2>2
    <2> QED BY <2>1, <2>3
  <1>5. ASSUME NEW i \in DOMAIN k.in PROVE k.in[i] = s[p + i]
    <2>1. CASE i = m + 1
      <3>1. 1 \in DOMAIN w BY <1>1, <1>2
      <3>2. w[1] = s[p + m + 1] BY <1>3, <3>1
      <3>3. p + m + 1 = p + (m + 1) BY <1>2
      <3>4. k.in[i] = w[1] BY <1>1, <2>1
      <3> QED BY <2>1, <3>2, <3>3, <3>4
    <2>2. CASE i \in 1 .. m BY <1>1, <1>3, <2>2
    <2> QED BY <1>1, <1>2, <2>1, <2>2
  <1>6. ASSUME NEW i \in DOMAIN k.wire PROVE k.wire[i] = s[p + Len(k.in) + i]
    <2>1. i + 1 \in DOMAIN w /\ k.wire[i] = w[i + 1] /\ i \in Nat BY <1>1, <1>2
    <2>2. w[i + 1] = s[p + m + (i + 1)] BY <1>3, <2>1
    <2>3. p + m + (i + 1) = p + (m + 1) + i BY <1>2, <2>1
    <2>4. Len(k.in) = m + 1 BY <1>1
    <2> QED BY <2>1, <2>2, <2>3, <2>4
  <1> QED BY <1>4, <1>5, <1>6 DEF Comes

LEMMA ComesCloses ==
  ASSUME NEW l, Wired(l), NEW n, NEW k, Closes(l, k, n)
  PROVE  /\ Wired(k) /\ (l.wire = <<>> => k.wire = <<>>)
         /\ \A s, p : p \in Nat /\ Len(s) \in Nat /\ Comes(l, s, p) => Comes(k, s, p)
  <1>1. /\ Len(k.wire) = n /\ DOMAIN k.wire = 1 .. n /\ DOMAIN l.wire = 1 .. Len(l.wire)
        /\ Len(l.wire) \in Nat /\ Len(l.in) \in Nat /\ \A i \in 1 .. n : k.wire[i] = l.wire[i]
        /\ Wired(k) /\ (l.wire = <<>> => k.wire = <<>>) /\ k.in = l.in
        /\ n \in 0 .. Len(l.wire)
    BY DEF Wired, Closes
  <1> SUFFICES ASSUME NEW s, NEW p \in Nat, Len(s) \in Nat, Comes(l, s, p)
               PROVE  Comes(k, s, p)
    BY <1>1
  <1>2. p + Len(k.in) + Len(k.wire) <= Len(s)
    <2> DEFINE a == Len(l.in)
               b == Len(l.wire)
               c == Len(s)
    <2>1. p + a + b <= c BY DEF Comes
    <2>2. a \in Nat /\ b \in Nat /\ c \in Nat /\ n \in 0 .. b BY <1>1
    <2>3. Len(k.in) = a /\ Len(k.wire) = n BY <1>1
    <2> HIDE DEF a, b, c
    <2>4. n \in Nat /\ n <= b BY <2>2
    <2>5. p + a + n <= c BY <2>1, <2>2, <2>4
    <2> QED BY <2>3, <2>5 DEF c
  <1>3. \A i \in DOMAIN k.in : k.in[i] = s[p + i] BY <1>1 DEF Comes
  <1>4. \A i \in DOMAIN k.wire : k.wire[i] = s[p + Len(k.in) + i] BY <1>1 DEF Comes
  <1> QED BY <1>2, <1>3, <1>4 DEF Comes

LEMMA ComesRead ==
  ASSUME NEW l, Wired(l), NEW k, Reads(l, k),
         NEW s, NEW p \in Nat, Len(s) \in Nat, Comes(l, s, p)
  PROVE  Wired(k) /\ Comes(k, s, p + 1) /\ Head(l.in) = s[p + 1] /\ p + 1 <= Len(s)
  <1> DEFINE a == l.in
             w == l.wire
             m == Len(l.in)
             n == Len(l.wire)
  <1>1. /\ Len(k.in) = m - 1 /\ Len(k.wire) = n /\ DOMAIN k.in = 1 .. m - 1 /\ DOMAIN k.wire = 1 .. n
        /\ DOMAIN a = 1 .. m /\ DOMAIN w = 1 .. n /\ Head(a) = a[1]
        /\ \A i \in 1 .. m - 1 : k.in[i] = a[i + 1]
        /\ Wired(k) /\ k.wire = w
    BY DEF Wired, Reads
  <1>2. m \in Nat /\ n \in Nat /\ m > 0 BY DEF Wired, Reads
  <1>3. /\ p + m + n <= Len(s) /\ \A i \in DOMAIN a : a[i] = s[p + i]
        /\ \A i \in DOMAIN w : w[i] = s[p + m + i]
    BY DEF Comes
  <1>4. Head(l.in) = a[1] BY <1>1
  <1> HIDE DEF m, n, a, w
  <1>5. (p + 1) + Len(k.in) + Len(k.wire) <= Len(s) /\ p + 1 <= Len(s)
    <2>1. p + m + n <= Len(s) BY <1>3
    <2>2. (p + 1) + (m - 1) + n <= Len(s) /\ p + 1 <= Len(s) BY <1>2, <2>1
    <2>3. Len(k.in) = m - 1 /\ Len(k.wire) = n BY <1>1
    <2> QED BY <2>2, <2>3
  <1>6. ASSUME NEW i \in DOMAIN k.in PROVE k.in[i] = s[(p + 1) + i]
    <2>1. i + 1 \in DOMAIN a /\ i \in Nat /\ k.in[i] = a[i + 1] BY <1>1, <1>2
    <2>2. a[i + 1] = s[p + (i + 1)] BY <1>3, <2>1
    <2>3. p + (i + 1) = (p + 1) + i BY <2>1
    <2> QED BY <2>1, <2>2, <2>3
  <1>7. ASSUME NEW i \in DOMAIN k.wire PROVE k.wire[i] = s[(p + 1) + Len(k.in) + i]
    <2>1. i \in DOMAIN w /\ i \in Nat /\ k.wire[i] = w[i] BY <1>1, <1>2
    <2>2. w[i] = s[p + m + i] BY <1>3, <2>1
    <2>3. p + m + i = (p + 1) + (m - 1) + i BY <1>2, <2>1
    <2>4. Len(k.in) = m - 1 BY <1>1
    <2> QED BY <2>1, <2>2, <2>3, <2>4
  <1>8. a[1] = s[p + 1] BY <1>1, <1>2, <1>3
  <1>9. Comes(k, s, p + 1) BY <1>5, <1>6, <1>7 DEF Comes
  <1> QED BY <1>1, <1>4, <1>5, <1>8, <1>9

\* Behind its head an answer is its body.
LEMMA ComesBody ==
  ASSUME NEW l, Wired(l), NEW r \in Responses, Comes(l, Http!Answer(r), 1)
  PROVE  Comes(l, Http!Body(r), 0)
  <1> DEFINE m == Len(l.in)
             n == Len(l.wire)
             c == ByteCount(r)
             s == Http!Answer(r)
             b == Http!Body(r)
  <1>1. m \in Nat /\ n \in Nat /\ DOMAIN l.in = 1 .. m /\ DOMAIN l.wire = 1 .. n
    BY DEF Wired
  <1>2. /\ 1 + m + n <= Len(s) /\ \A i \in DOMAIN l.in : l.in[i] = s[1 + i]
        /\ \A i \in DOMAIN l.wire : l.wire[i] = s[1 + m + i]
    BY DEF Comes
  <1>3. /\ Len(s) = c + 1 /\ c \in Nat /\ Len(b) = c /\ \A i \in 1 .. c : s[1 + i] = b[i]
    BY AnswerIs, BodyIs
  <1>4. m = Len(l.in) /\ n = Len(l.wire) OBVIOUS
  <1> HIDE DEF m, n, c, s, b
  <1>5. 0 + m + n <= Len(b) BY <1>1, <1>2, <1>3
  <1>6. ASSUME NEW i \in DOMAIN l.in PROVE l.in[i] = b[0 + i]
    <2>1. i \in 1 .. c /\ 0 + i = i BY <1>1, <1>2, <1>3
    <2> QED BY <1>2, <1>3, <2>1
  <1>7. ASSUME NEW i \in DOMAIN l.wire PROVE l.wire[i] = b[0 + m + i]
    <2>1. m + i \in 1 .. c /\ 0 + m + i = m + i /\ 1 + m + i = 1 + (m + i) BY <1>1, <1>2, <1>3
    <2> QED BY <1>2, <1>3, <2>1
  <1> QED BY <1>4, <1>5, <1>6, <1>7 DEF Comes, b

-----------------------------------------------------------------------------
\* A client that is not connected has nothing on its way.
LEMMA HttpSilent == ASSUME HttpInv, ~Http!Connected PROVE Silent(link)
  BY DEF HttpInv, HttpTo, HttpLink, Http!Connected, Silent

LEMMA NoLinkIs ==
  /\ HttpLink(Http!NoLink) /\ Silent(Http!NoLink) /\ Http!NoLink.to = Http!Nowhere
  /\ Http!NoLink.wire \in Seq(HttpBytes)
  <1>1. \A S : <<>> \in Seq(S) OBVIOUS
  <1>2. /\ Http!NoLink.in = <<>> /\ Http!NoLink.wire = <<>> /\ Http!NoLink.to = Http!Nowhere
        /\ Http!NoLink = [to |-> Http!NoLink.to, wire |-> Http!NoLink.wire, in |-> Http!NoLink.in,
                          closed |-> Http!NoLink.closed, kept |-> Http!NoLink.kept,
                          late |-> Http!NoLink.late]
    BY DEF Http!NoLink
  <1> QED BY <1>1, <1>2 DEF HttpLink, Silent

LEMMA BytesAreNoHeads == ASSUME NEW t \in HttpBytes PROVE t.kind # "head"
  <1>1. PICK r \in Responses : \E i \in DOMAIN Http!Body(r) : t = Http!Body(r)[i] BY DEF HttpBytes
  <1>2. PICK i \in 1 .. ByteCount(r) : t = Http!Body(r)[i] BY <1>1, BodyIs
  <1>3. Http!Body(r)[i].kind # "head" BY BodyAt
  <1> QED BY <1>2, <1>3

LEMMA BodyOnWire ==
  ASSUME NEW l, HttpLink(l), NEW r \in Responses, NEW p \in Nat, Comes(l, Http!Body(r), p)
  PROVE  l.wire \in Seq(HttpBytes)
  <1> DEFINE w == l.wire
             m == Len(l.in)
             n == Len(w)
             b == Http!Body(r)
             c == ByteCount(r)
  <1>1. w \in Seq(HttpTokens) /\ m \in Nat BY DEF HttpLink
  <1>2. n \in Nat /\ DOMAIN w = 1 .. n /\ w = [i \in 1 .. n |-> w[i]] BY <1>1
  <1>3. Len(b) = c /\ c \in Nat /\ DOMAIN b = 1 .. c BY BodyIs
  <1>4. p + m + n <= Len(b) /\ \A i \in DOMAIN w : w[i] = b[p + m + i] BY DEF Comes
  <1>5. \A i \in DOMAIN b : b[i] \in HttpBytes BY DEF HttpBytes
  <1> HIDE DEF w, m, n, b, c
  <1>6. ASSUME NEW i \in 1 .. n PROVE w[i] \in HttpBytes
    <2>1. p + m + i \in 1 .. c BY <1>1, <1>2, <1>3, <1>4
    <2> QED BY <1>2, <1>3, <1>4, <1>5, <2>1
  <1>7. w \in Seq(HttpBytes) BY <1>2, <1>6
  <1> QED BY <1>7 DEF w

LEMMA WireIsBytes ==
  ASSUME HttpInv, request.pc \in {"idle", "connect", "code"} \cup InBody
  PROVE  link.wire \in Seq(HttpBytes)
  <1>1. CASE request.pc \in {"idle", "connect"} BY <1>1 DEF HttpInv, HttpStream
  <1>2. CASE request.pc \in {"code"} \cup InBody
    <2>1. CASE link.late
      <3>1. link.wire = <<>> BY <2>1 DEF HttpInv, HttpLink, Silent
      <3> QED BY <3>1
    <2>2. CASE ~link.late
      <3>1. PICK r \in Responses, p \in Nat : Comes(link, Http!Body(r), p)
        BY <1>2, <2>2 DEF HttpInv, HttpStream
      <3> QED BY <3>1, BodyOnWire DEF HttpInv
    <2> QED BY <2>1, <2>2
  <1> QED BY <1>1, <1>2

\* At rest, or before a request is sent, no more than bytes of a body are on their way.
LEMMA HttpRests ==
  ASSUME HttpLink(link'), link'.wire \in Seq(HttpBytes),
         HttpCall(request'), request'.pc \in {"idle", "connect"},
         outcome'.of # "request", outcome'.of = "body" => outcome'.mine \/ outcome'.late,
         HttpTo'
  PROVE  HttpInv'
  <1>1. HttpStream(link', request', response', outcome'.of) BY DEF HttpStream, InBody
  <1>2. HttpOwn' BY DEF HttpOwn, InBody
  <1>3. Http!ResponseIsOwn' BY DEF Http!ResponseIsOwn
  <1>4. request'.pc \in HttpPcs BY DEF HttpPcs
  <1> QED BY <1>1, <1>2, <1>3, <1>4 DEF HttpInv

LEMMA IdleIs ==
  HttpCall(Http!Idle) /\ Http!Idle.pc = "idle" /\ Http!Idle.got = 0
  BY DEF HttpCall, Http!Idle
LEMMA NoResultIs == Http!NoResult.of = "none"
  BY DEF Http!NoResult

LEMMA HttpFails == ASSUME HttpInv, Http!Fail PROVE HttpInv'
  <1>1. /\ request' = Http!Idle /\ UNCHANGED client
        /\ (Http!Connected /\ link' = Http!NoLink) \/ (~Http!Connected /\ UNCHANGED link)
    BY DEF Http!Fail
  <1>2. outcome' = [Http!NoResult EXCEPT !.of = "failure"] BY DEF Http!Fail
  <1>3. outcome'.of = "failure" BY <1>2 DEF Http!NoResult
  <1>4. CASE link' = Http!NoLink
    <2>1. HttpTo' BY <1>4, NoLinkIs DEF HttpTo
    <2> QED BY <1>1, <1>3, <1>4, <2>1, HttpRests, NoLinkIs, IdleIs
  <1>5. CASE ~Http!Connected /\ UNCHANGED link
    <2>1. Silent(link) BY <1>5, HttpSilent
    <2>2. link'.wire \in Seq(HttpBytes) BY <1>5, <2>1 DEF Silent
    <2>3. HttpTo' BY <1>1, <1>5, IdleIs DEF HttpTo, HttpInv, Http!Connected
    <2>4. HttpLink(link') BY <1>5 DEF HttpInv
    <2> QED BY <1>1, <1>3, <2>2, <2>3, <2>4, HttpRests, IdleIs
  <1> QED BY <1>1, <1>4, <1>5

\* Disconnected() leaves a connection as it is, empties it, or ends it.
LEMMA DisconnectedIs ==
  ASSUME HttpInv, NEW can
  PROVE  LET l == Http!Disconnected(can)
         IN  /\ HttpLink(l)
             /\ link.wire \in Seq(HttpBytes) => l.wire \in Seq(HttpBytes)
             /\ \/ l = Http!NoLink /\ Http!Connected /\ ~(reuse /\ can)
                \/ /\ Http!Connected /\ reuse /\ can
                   /\ l.to = link.to /\ l.kept = link.kept
                \/ l = link /\ ~Http!Connected
  <1> DEFINE l == Http!Disconnected(can)
  <1>1. CASE ~Http!Connected
    <2>1. l = link BY <1>1 DEF Http!Disconnected
    <2> QED BY <1>1, <2>1 DEF HttpInv
  <1>2. CASE Http!Connected /\ reuse /\ can
    <2> DEFINE e == [link EXCEPT !.in = <<>>]
    <2>1. l = e BY <1>2 DEF Http!Disconnected
    <2>2. e = [to |-> link.to, wire |-> link.wire, in |-> <<>>, closed |-> link.closed,
               kept |-> link.kept, late |-> link.late]
      BY DEF HttpInv, HttpLink
    <2> HIDE DEF e
    <2>3. e.to = link.to /\ e.wire = link.wire /\ e.in = <<>> /\ e.kept = link.kept
          /\ e.closed = link.closed /\ e.late = link.late
      BY <2>2
    <2>4. <<>> \in Seq(HttpTokens) OBVIOUS
    <2>5. HttpLink(e) BY <2>2, <2>3, <2>4 DEF HttpInv, HttpLink, Silent
    <2> QED BY <1>2, <2>1, <2>3, <2>5
  <1>3. CASE Http!Connected /\ ~(reuse /\ can)
    <2>1. l = Http!NoLink BY <1>3 DEF Http!Disconnected
    <2> QED BY <1>3, <2>1, NoLinkIs
  <1> QED BY <1>1, <1>2, <1>3

LEMMA HttpStands ==
  ASSUME HttpInv, UNCHANGED <<client, link, target, response, request, outcome>>
  PROVE  HttpInv'
  <1>1. HttpTo' BY DEF HttpInv, HttpTo, Http!Connected
  <1>2. HttpOwn' /\ Http!ResponseIsOwn' BY DEF HttpInv, HttpOwn, Http!ResponseIsOwn
  <1> QED BY <1>1, <1>2 DEF HttpInv

-----------------------------------------------------------------------------
\* begin() and end() leave nothing on its way to another host.
LEMMA HttpBegins ==
  ASSUME HttpInv, NEW t, Http!Begin(t) \/ Http!BeginHost(t)
  PROVE  HttpInv'
  <1>1. /\ request.pc = "idle" /\ UNCHANGED request /\ target' = t /\ client' = TRUE
        /\ outcome' = Http!NoResult
    BY DEF Http!Begin, Http!BeginHost, Http!BeginUrl
  <1>2. HttpCall(request') /\ request'.pc = "idle" BY <1>1 DEF HttpInv
  <1>3. outcome'.of = "none" BY <1>1, NoResultIs
  <1>4. link.wire \in Seq(HttpBytes) BY <1>1, WireIsBytes
  <1>5. CASE Http!Begin(t)
    <2>1. CASE Host[target] # Host[t] /\ Http!Connected
      <3>1. link' = Http!NoLink
        <4>1. link' = Http!Disconnected(FALSE) BY <1>5, <2>1 DEF Http!Begin, Http!BeginUrl
        <4> QED BY <2>1, <4>1 DEF Http!Disconnected
      <3>2. HttpTo' BY <3>1, NoLinkIs DEF HttpTo
      <3> QED BY <1>2, <1>3, <3>1, <3>2, HttpRests, NoLinkIs
    <2>2. CASE ~(Host[target] # Host[t] /\ Http!Connected)
      <3>1. UNCHANGED link BY <1>5, <2>2 DEF Http!Begin, Http!BeginUrl
      <3>2. HttpTo'
        <4>1. client \/ link.to = Http!Nowhere BY DEF HttpInv, HttpTo
        <4>2. client' BY <1>1
        <4>3. Http!Connected' /\ link'.to # Http!Nowhere => Http!Connected
          BY <3>1, <4>1 DEF Http!Connected
        <4>4. Http!Connected /\ link.to # Http!Nowhere => Host[link.to] = Host[target] \/ link.kept
          BY DEF HttpInv, HttpTo
        <4> QED BY <1>1, <1>2, <2>2, <3>1, <4>2, <4>3, <4>4 DEF HttpTo
      <3>3. HttpLink(link') BY <3>1 DEF HttpInv
      <3> QED BY <1>2, <1>3, <1>4, <3>1, <3>2, <3>3, HttpRests
    <2> QED BY <2>1, <2>2
  <1>6. CASE Http!BeginHost(t)
    <2> DEFINE k == link.to # Http!Nowhere /\ (link.kept \/ Host[link.to] # Host[t])
    <2>1. link' = [link EXCEPT !.kept = k] BY <1>6 DEF Http!BeginHost
    <2>2. link.to # Http!Nowhere => Host[link.to] = Host[t] \/ k OBVIOUS
    <2> HIDE DEF k
    <2>3. link' = [to |-> link.to, wire |-> link.wire, in |-> link.in, closed |-> link.closed,
                   kept |-> k, late |-> link.late]
      BY <2>1 DEF HttpInv, HttpLink
    <2>4. link'.to = link.to /\ link'.wire = link.wire /\ link'.in = link.in
          /\ link'.closed = link.closed /\ link'.late = link.late
      BY <2>3
    <2>5. link'.kept = k BY <2>3
    <2>6. HttpLink(link') BY <2>3, <2>4, <2>5 DEF HttpInv, HttpLink, Silent
    <2>7. HttpTo' BY <1>1, <2>2, <2>4, <2>5 DEF HttpTo
    <2> QED BY <1>2, <1>3, <1>4, <2>4, <2>6, <2>7, HttpRests
  <1> QED BY <1>5, <1>6

LEMMA HttpEnds == ASSUME HttpInv, Http!End PROVE HttpInv'
  <1>1. /\ request.pc = "idle" /\ UNCHANGED <<request, target>>
        /\ link' = Http!Disconnected(canReuse) /\ outcome' = Http!NoResult
        /\ client
    BY DEF Http!End
  <1>2. client' <=> (Http!Connected => reuse /\ canReuse) BY DEF Http!End
  <1>3. link.wire \in Seq(HttpBytes) BY <1>1, WireIsBytes
  <1>4. HttpLink(link') /\ link'.wire \in Seq(HttpBytes) BY <1>1, <1>3, DisconnectedIs
  <1>5. HttpTo'
    <2>1. CASE link' = Http!NoLink BY <2>1, NoLinkIs DEF HttpTo
    <2>2. CASE /\ Http!Connected /\ reuse /\ canReuse
               /\ link'.to = link.to /\ link'.kept = link.kept
      <3>1. client' BY <1>2, <2>2
      <3> QED BY <1>1, <2>2, <3>1 DEF HttpTo, HttpInv
    <2>3. CASE link' = link /\ ~Http!Connected
      <3>1. client' /\ ~Http!Connected' BY <1>1, <1>2, <2>3 DEF Http!Connected
      <3> QED BY <1>1, <3>1 DEF HttpTo
    <2> QED BY <1>1, <2>1, <2>2, <2>3, DisconnectedIs
  <1> QED BY <1>1, <1>4, <1>5, HttpRests, NoResultIs DEF HttpInv

LEMMA HttpSends == ASSUME HttpInv, NEW m, Http!SendRequest(m) PROVE HttpInv'
  <1>1. /\ request.pc = "idle" /\ UNCHANGED <<client, link, target>>
        /\ request' = [Http!Idle EXCEPT !.pc = "connect", !.method = m]
        /\ outcome' = Http!NoResult
    BY DEF Http!SendRequest
  <1>2. HttpCall(request') /\ request'.pc = "connect"
    <2>1. request' = [pc |-> "connect", method |-> m, count |-> Http!Idle.count,
                      left |-> Http!Idle.left, got |-> Http!Idle.got, right |-> Http!Idle.right]
      BY <1>1 DEF Http!Idle
    <2> QED BY <2>1 DEF HttpCall
  <1>3. link'.wire \in Seq(HttpBytes) /\ HttpLink(link') BY <1>1, WireIsBytes DEF HttpInv
  <1>4. HttpTo' BY <1>1, <1>2 DEF HttpInv, HttpTo, Http!Connected
  <1> QED BY <1>1, <1>2, <1>3, <1>4, HttpRests, NoResultIs

LEMMA HttpConnects == ASSUME HttpInv, Http!Connect PROVE HttpInv'
  <1>1. request.pc = "connect" BY DEF Http!Connect
  <1>2. CASE Http!Fail BY <1>2, HttpFails
  <1>3. CASE ~Http!Fail
    <2> DEFINE fresh == [Http!NoLink EXCEPT !.to = target]
               yes == TRUE
               late == [link EXCEPT !.in = <<>>, !.wire = <<>>, !.late = yes]
               kept == [link EXCEPT !.in = <<>>]
    <2>1. /\ client /\ UNCHANGED <<client, target, response, outcome>>
          /\ request' = [request EXCEPT !.pc = "send"]
          /\ \/ ~Http!Connected /\ link' = fresh
             \/ Http!Connected /\ link' = late
             \/ /\ Http!Connected /\ link' = kept
                /\ ~\E i \in DOMAIN link.wire : link.wire[i].kind # "head"
      BY <1>3 DEF Http!Connect
    <2> HIDE DEF yes
    <2>2. HttpCall(request') /\ request'.pc = "send"
      <3>1. request' = [pc |-> "send", method |-> request.method, count |-> request.count,
                        left |-> request.left, got |-> request.got, right |-> request.right]
        BY <2>1 DEF HttpInv, HttpCall
      <3> QED BY <3>1 DEF HttpCall
    <2>3. Silent(link') /\ HttpLink(link')
          /\ (link'.to = target \/ (Http!Connected /\ link'.to = link.to /\ link'.kept = link.kept))
      <3>0. \A S : <<>> \in Seq(S) OBVIOUS
      <3>1. CASE link' = fresh
        <4>1. fresh = [to |-> target, wire |-> <<>>, in |-> <<>>, closed |-> Http!NoLink.closed,
                       kept |-> Http!NoLink.kept, late |-> Http!NoLink.late]
          <5>1. Http!NoLink = [to |-> Http!NoLink.to, wire |-> Http!NoLink.wire,
                               in |-> Http!NoLink.in, closed |-> Http!NoLink.closed,
                               kept |-> Http!NoLink.kept, late |-> Http!NoLink.late]
            BY NoLinkIs DEF HttpLink
          <5>2. Http!NoLink.wire = <<>> /\ Http!NoLink.in = <<>> BY NoLinkIs DEF Silent
          <5> QED BY <5>1, <5>2
        <4> HIDE DEF fresh
        <4>2. fresh.to = target /\ fresh.wire = <<>> /\ fresh.in = <<>> BY <4>1
        <4> QED BY <3>0, <3>1, <4>1, <4>2 DEF HttpLink, Silent
      <3>2. CASE Http!Connected /\ link' = late
        <4> DEFINE m == [link EXCEPT !.in = <<>>]
                   n == [m EXCEPT !.wire = <<>>]
                   o == [n EXCEPT !.late = yes]
        <4>1. late = o BY SMTT(60)
        <4>2. m = [to |-> link.to, wire |-> link.wire, in |-> <<>>, closed |-> link.closed,
                   kept |-> link.kept, late |-> link.late]
          BY DEF HttpInv, HttpLink
        <4> HIDE DEF m
        <4>3. n = [to |-> link.to, wire |-> <<>>, in |-> <<>>, closed |-> link.closed,
                   kept |-> link.kept, late |-> link.late]
          BY <4>2
        <4> HIDE DEF n
        <4>4. o = [to |-> link.to, wire |-> <<>>, in |-> <<>>, closed |-> link.closed,
                   kept |-> link.kept, late |-> yes]
          BY <4>3
        <4> HIDE DEF late, o
        <4>5. /\ late.in = <<>> /\ late.wire = <<>> /\ late.to = link.to /\ late.kept = link.kept
              /\ late = [to |-> late.to, wire |-> late.wire, in |-> late.in,
                         closed |-> late.closed, kept |-> late.kept, late |-> late.late]
          BY <4>1, <4>4
        <4> QED BY <3>0, <3>2, <4>5 DEF HttpLink, Silent
      <3>3. CASE /\ Http!Connected /\ link' = kept
                 /\ ~\E i \in DOMAIN link.wire : link.wire[i].kind # "head"
        <4>1. kept = [to |-> link.to, wire |-> link.wire, in |-> <<>>, closed |-> link.closed,
                      kept |-> link.kept, late |-> link.late]
          BY SMTT(60) DEF HttpInv, HttpLink
        <4> HIDE DEF kept
        <4>2. kept.to = link.to /\ kept.wire = link.wire /\ kept.in = <<>> /\ kept.kept = link.kept
          BY <4>1
        <4>3. link.wire = <<>>
          <5>1. link.wire \in Seq(HttpBytes) BY <1>1, WireIsBytes
          <5>2. \A i \in DOMAIN link.wire : link.wire[i] \in HttpBytes /\ link.wire[i].kind = "head"
            BY <3>3, <5>1
          <5>3. \A i \in DOMAIN link.wire : FALSE BY <5>2, BytesAreNoHeads
          <5>4. link.wire # <<>> => 1 \in DOMAIN link.wire BY <5>1
          <5> QED BY <5>3, <5>4
        <4>4. kept = [to |-> kept.to, wire |-> kept.wire, in |-> kept.in, closed |-> kept.closed,
                      kept |-> kept.kept, late |-> kept.late]
          BY <4>1
        <4> QED BY <3>0, <3>3, <4>2, <4>3, <4>4 DEF HttpLink, Silent
      <3> QED BY <2>1, <3>1, <3>2, <3>3
    <2>4. HttpStream(link', request', response', outcome'.of)
      BY <2>2, <2>3 DEF HttpStream, InBody
    <2>5. HttpOwn' /\ Http!ResponseIsOwn'
      BY <1>1, <2>1, <2>2 DEF HttpInv, HttpOwn, InBody, Http!ResponseIsOwn
    <2>6. HttpTo' BY <2>1, <2>3 DEF HttpInv, HttpTo
    <2> QED BY <2>2, <2>3, <2>4, <2>5, <2>6 DEF HttpInv, HttpPcs
  <1> QED BY <1>2, <1>3

\* In its other phases a request leaves the connection to what it was for.
LEMMA HttpGoesOn ==
  ASSUME HttpInv, UNCHANGED <<client, target>>, link'.to = link.to, link'.kept = link.kept,
         Http!Connected' \/ request'.pc \in {"send", "upload", "answer"} =>
            Http!Connected \/ request.pc \in {"send", "upload", "answer"}
  PROVE  HttpTo'
  BY DEF HttpInv, HttpTo

LEMMA HttpSendsIt == ASSUME HttpInv, Http!Send PROVE HttpInv'
  <1>1. CASE Http!Fail BY <1>1, HttpFails
  <1>2. ASSUME Http!Connected, request.pc = "send",
               NEW x \in {<<>>} \cup {Http!Answer(r) : r \in Responses},
               link' = [link EXCEPT
                          !.wire = Http!Old(@) \o (IF link.closed \/ link.late THEN <<>> ELSE x),
                          !.in = Http!Old(@)],
               request' = [request EXCEPT
                             !.pc = IF request.method \in {"STREAM", "ENDLESS"} THEN "upload"
                                    ELSE "answer"],
               UNCHANGED <<client, target, response, outcome>>
        PROVE  HttpInv'
    <2> DEFINE y == IF link.closed \/ link.late THEN <<>> ELSE x
               pc == IF request.method \in {"STREAM", "ENDLESS"} THEN "upload" ELSE "answer"
    <2>1. link.in = <<>> /\ link.wire = <<>> BY <1>2 DEF HttpInv, HttpStream, Silent
    <2>2. Http!Old(<<>>) = <<>>
      <3>1. Http!Old(<<>>) = [i \in 1 .. 0 |-> [<<>>[i] EXCEPT !.mine = FALSE]]
        BY DEF Http!Old
      <3> QED BY <3>1
    <2>3. \/ y = <<>> \/ (~link.late /\ \E r \in Responses : y = Http!Answer(r)) BY <1>2
    <2>5. link.late => y = <<>> OBVIOUS
    <2>6. pc \in {"upload", "answer"} OBVIOUS
    <2>7. link' = [link EXCEPT !.wire = Http!Old(@) \o y, !.in = Http!Old(@)]
          /\ request' = [request EXCEPT !.pc = pc]
      BY <1>2
    <2> HIDE DEF y, pc
    <2>4. y \in Seq(HttpTokens)
      <3>1. CASE y = <<>> BY <3>1
      <3>2. ASSUME NEW r \in Responses, y = Http!Answer(r) PROVE y \in Seq(HttpTokens)
        BY <3>2, AnswerIs
      <3> QED BY <2>3, <3>1, <3>2
    <2>8. <<>> \o y = y BY <2>4
    <2>9. link' = [to |-> link.to, wire |-> y, in |-> <<>>, closed |-> link.closed,
                   kept |-> link.kept, late |-> link.late]
      BY <2>1, <2>2, <2>7, <2>8 DEF HttpInv, HttpLink
    <2>10. link'.to = link.to /\ link'.wire = y /\ link'.in = <<>> /\ link'.kept = link.kept
           /\ link'.late = link.late
      BY <2>9
    <2>11. HttpCall(request') /\ request'.pc = pc
      <3>1. request' = [pc |-> pc, method |-> request.method, count |-> request.count,
                        left |-> request.left, got |-> request.got, right |-> request.right]
        BY <2>7 DEF HttpInv, HttpCall
      <3> QED BY <3>1 DEF HttpCall
    <2>12. link.to # Http!Nowhere BY <1>2 DEF Http!Connected
    <2>13. HttpLink(link')
      <3>1. <<>> \in Seq(HttpTokens) OBVIOUS
      <3>2. link' = [to |-> link'.to, wire |-> link'.wire, in |-> link'.in, closed |-> link'.closed,
                     kept |-> link'.kept, late |-> link'.late]
        BY <2>9
      <3> QED BY <2>4, <2>5, <2>10, <2>12, <3>1, <3>2 DEF HttpLink, Silent
    <2>14. Silent(link') \/ \E r \in Responses : Comes(link', Http!Answer(r), 0)
      <3>1. CASE y = <<>> BY <2>10, <3>1 DEF Silent
      <3>2. ASSUME NEW r \in Responses, y = Http!Answer(r) PROVE Comes(link', Http!Answer(r), 0)
        <4>1. Len(y) \in Nat /\ DOMAIN y = 1 .. Len(y) BY <2>4
        <4>2. Len(<<>>) = 0 /\ DOMAIN <<>> = {} OBVIOUS
        <4>3. 0 + 0 + Len(y) <= Len(y) BY <4>1
        <4>4. \A i \in DOMAIN y : y[i] = y[0 + 0 + i] BY <4>1
        <4> QED BY <2>10, <3>2, <4>2, <4>3, <4>4 DEF Comes
      <3> QED BY <2>3, <3>1, <3>2
    <2>15. HttpStream(link', request', response', outcome'.of)
      BY <2>6, <2>11, <2>14 DEF HttpStream, InBody
    <2>16. HttpOwn' /\ Http!ResponseIsOwn'
      BY <1>2, <2>6, <2>11 DEF HttpInv, HttpOwn, InBody, Http!ResponseIsOwn
    <2>17. HttpTo' BY <1>2, <2>10, HttpGoesOn
    <2> QED BY <2>6, <2>11, <2>13, <2>15, <2>16, <2>17 DEF HttpInv, HttpPcs
  <1> QED BY <1>1, <1>2 DEF Http!Send

LEMMA HttpUploads == ASSUME HttpInv, Http!Upload PROVE HttpInv'
  <1>1. CASE Http!Fail BY <1>1, HttpFails
  <1>2. CASE ~Http!Fail
    <2>1. /\ request.pc = "upload" /\ UNCHANGED <<client, link, target, response, outcome>>
          /\ request' = [request EXCEPT !.pc = "answer"]
      BY <1>2 DEF Http!Upload
    <2>2. HttpCall(request') /\ request'.pc = "answer"
      <3>1. request' = [pc |-> "answer", method |-> request.method, count |-> request.count,
                        left |-> request.left, got |-> request.got, right |-> request.right]
        BY <2>1 DEF HttpInv, HttpCall
      <3> QED BY <3>1 DEF HttpCall
    <2>3. HttpStream(link', request', response', outcome'.of)
      BY <2>1, <2>2 DEF HttpInv, HttpStream, InBody
    <2>4. HttpOwn' /\ Http!ResponseIsOwn'
      BY <2>1, <2>2 DEF HttpInv, HttpOwn, InBody, Http!ResponseIsOwn
    <2>5. HttpTo' BY <2>1, HttpGoesOn
    <2> QED BY <2>1, <2>2, <2>3, <2>4, <2>5 DEF HttpInv, HttpPcs
  <1> QED BY <1>1, <1>2

LEMMA HttpAwaits == ASSUME HttpInv, Http!AwaitAnswer PROVE HttpInv'
  <1>1. CASE Http!Fail BY <1>1, HttpFails
  <1>2. CASE ~Http!Fail
    <2>1. /\ request.pc = "answer" /\ UNCHANGED <<client, link, target, outcome>>
          /\ request' = [request EXCEPT !.pc = "head"]
      BY <1>2 DEF Http!AwaitAnswer
    <2>2. HttpCall(request') /\ request'.pc = "head"
      <3>1. request' = [pc |-> "head", method |-> request.method, count |-> request.count,
                        left |-> request.left, got |-> request.got, right |-> request.right]
        BY <2>1 DEF HttpInv, HttpCall
      <3> QED BY <3>1 DEF HttpCall
    <2>3. HttpStream(link', request', response', outcome'.of)
      BY <2>1, <2>2 DEF HttpInv, HttpStream, InBody
    <2>4. HttpOwn' /\ Http!ResponseIsOwn'
      BY <2>1, <2>2 DEF HttpInv, HttpOwn, InBody, Http!ResponseIsOwn
    <2>5. HttpTo' BY <2>1, HttpGoesOn
    <2> QED BY <2>1, <2>2, <2>3, <2>4, <2>5 DEF HttpInv, HttpPcs
  <1> QED BY <1>1, <1>2

-----------------------------------------------------------------------------
\* What the phases of a request make of its record.
SetsRight(k, q, a, b) == k = [q EXCEPT !.pc = a, !.right = b]
SetsLeft(k, q, a, b) == k = [q EXCEPT !.pc = a, !.left = b]
SetsGot(k, q, a, b, c) == k = [q EXCEPT !.got = a, !.left = b, !.right = c]
LEMMA CallAt ==
  ASSUME NEW q, HttpCall(q), NEW a, NEW k, k = [q EXCEPT !.pc = a]
  PROVE  /\ HttpCall(k) /\ k.pc = a
         /\ k.left = q.left /\ k.got = q.got /\ k.right = q.right /\ k.count = q.count
  <1>1. k = [pc |-> a, method |-> q.method, count |-> q.count, left |-> q.left, got |-> q.got,
             right |-> q.right]
    BY DEF HttpCall
  <1> QED BY <1>1 DEF HttpCall

LEMMA CallRight ==
  ASSUME NEW q, HttpCall(q), NEW a, NEW b, NEW k, SetsRight(k, q, a, b)
  PROVE  HttpCall(k) /\ k.pc = a /\ k.left = q.left /\ k.got = q.got /\ k.right = b
  <1> DEFINE m == [q EXCEPT !.pc = a]
  <1>1. k = [m EXCEPT !.right = b] BY DEF SetsRight
  <1>2. m = [pc |-> a, method |-> q.method, count |-> q.count, left |-> q.left, got |-> q.got,
             right |-> q.right]
    BY DEF HttpCall
  <1> HIDE DEF m
  <1>3. k = [pc |-> a, method |-> q.method, count |-> q.count, left |-> q.left, got |-> q.got,
             right |-> b]
    BY <1>1, <1>2
  <1> QED BY <1>3 DEF HttpCall

LEMMA CallLeft ==
  ASSUME NEW q, HttpCall(q), NEW a, NEW b, NEW k, SetsLeft(k, q, a, b)
  PROVE  HttpCall(k) /\ k.pc = a /\ k.left = b /\ k.got = q.got /\ k.right = q.right
  <1> DEFINE m == [q EXCEPT !.pc = a]
  <1>1. k = [m EXCEPT !.left = b] BY DEF SetsLeft
  <1>2. m = [pc |-> a, method |-> q.method, count |-> q.count, left |-> q.left, got |-> q.got,
             right |-> q.right]
    BY DEF HttpCall
  <1> HIDE DEF m
  <1>3. k = [pc |-> a, method |-> q.method, count |-> q.count, left |-> b, got |-> q.got,
             right |-> q.right]
    BY <1>1, <1>2
  <1> QED BY <1>3 DEF HttpCall

LEMMA CallGot ==
  ASSUME NEW q, HttpCall(q), NEW a, NEW b, NEW c, NEW k, SetsGot(k, q, a, b, c)
  PROVE  HttpCall(k) /\ k.pc = q.pc /\ k.got = a /\ k.left = b /\ k.right = c
  <1> DEFINE m == [q EXCEPT !.got = a]
             n == [m EXCEPT !.left = b]
  <1>1. k = [n EXCEPT !.right = c] BY DEF SetsGot
  <1>2. m = [pc |-> q.pc, method |-> q.method, count |-> q.count, left |-> q.left, got |-> a,
             right |-> q.right]
    BY DEF HttpCall
  <1> HIDE DEF m
  <1>3. n = [pc |-> q.pc, method |-> q.method, count |-> q.count, left |-> b, got |-> a,
             right |-> q.right]
    BY <1>2
  <1> HIDE DEF n
  <1>4. k = [pc |-> q.pc, method |-> q.method, count |-> q.count, left |-> b, got |-> a,
             right |-> c]
    BY <1>1, <1>3
  <1> QED BY <1>4 DEF HttpCall

\* A token is read from a connection that has one: it goes to its host and is not late.
LEMMA LinkRead ==
  ASSUME HttpInv, link.in # <<>>, link' = [link EXCEPT !.in = Tail(@)]
  PROVE  /\ HttpLink(link') /\ link'.in = Tail(link.in) /\ link'.wire = link.wire
         /\ link'.to = link.to /\ link'.kept = link.kept /\ ~link.late /\ ~link'.late
         /\ link.to # Http!Nowhere
         /\ UNCHANGED client => (Http!Connected' => Http!Connected)
         /\ \A s : \A p \in Nat : Len(s) \in Nat /\ Comes(link, s, p) =>
               Comes(link', s, p + 1) /\ Head(link.in) = s[p + 1] /\ p + 1 <= Len(s)
  <1>1. link' = [to |-> link.to, wire |-> link.wire, in |-> Tail(link.in), closed |-> link.closed,
                 kept |-> link.kept, late |-> link.late]
    BY DEF HttpInv, HttpLink
  <1>2. /\ link'.to = link.to /\ link'.wire = link.wire /\ link'.in = Tail(link.in)
        /\ link'.closed = link.closed /\ link'.kept = link.kept /\ link'.late = link.late
    BY <1>1
  <1>3. ~Silent(link) BY DEF Silent
  <1>4. ~link.late /\ link.to # Http!Nowhere BY <1>3 DEF HttpInv, HttpLink
  <1>5. link.wire \in Seq(HttpTokens) /\ link.in \in Seq(HttpTokens) BY DEF HttpInv, HttpLink
  <1>6. HttpLink(link')
    <2>1. Tail(link.in) \in Seq(HttpTokens) BY <1>5
    <2>2. link' = [to |-> link'.to, wire |-> link'.wire, in |-> link'.in, closed |-> link'.closed,
                   kept |-> link'.kept, late |-> link'.late]
      BY <1>1, <1>2
    <2>3. ~link'.late /\ link'.to # Http!Nowhere BY <1>2, <1>4
    <2> QED BY <1>2, <1>5, <2>1, <2>2, <2>3 DEF HttpLink
  <1>7. UNCHANGED client => (Http!Connected' => Http!Connected)
    BY <1>2 DEF Http!Connected
  <1>8. \A s : \A p \in Nat : Len(s) \in Nat /\ Comes(link, s, p) =>
               Comes(link', s, p + 1) /\ Head(link.in) = s[p + 1] /\ p + 1 <= Len(s)
    <2>1. Wired(link) /\ Reads(link, link') BY <1>2, <1>5 DEF Wired, Reads
    <2> QED BY <2>1, ComesRead
  <1> QED BY <1>2, <1>4, <1>6, <1>7, <1>8

LEMMA HttpReadsLine == ASSUME HttpInv, Http!ReadLine PROVE HttpInv'
  <1> DEFINE t == Head(link.in)
  <1>1. /\ request.pc = "head" /\ link.in # <<>> /\ UNCHANGED <<client, target, outcome>>
        /\ link' = [link EXCEPT !.in = Tail(@)]
        /\ response' = t.head
        /\ request' = [request EXCEPT !.pc = "code", !.right = t.mine]
    BY DEF Http!ReadLine
  <1>2. PICK r \in Responses : Comes(link, Http!Answer(r), 0)
    BY <1>1 DEF HttpInv, HttpStream, Silent
  <1>3. /\ Comes(link', Http!Answer(r), 1) /\ t = Http!HeadToken(r)
    <2>1. Len(Http!Answer(r)) \in Nat /\ Http!Answer(r)[1] = Http!HeadToken(r) BY AnswerIs
    <2>2. 0 + 1 = 1 /\ 0 \in Nat OBVIOUS
    <2> QED BY <1>1, <1>2, <2>1, <2>2, LinkRead
  <1>4. HttpLink(link') /\ link'.to = link.to /\ link'.kept = link.kept
        /\ (Http!Connected' => Http!Connected)
    BY <1>1, LinkRead
  <1>5. Comes(link', Http!Body(r), 0) BY <1>3, <1>4, ComesBody DEF HttpLink, Wired
  <1>6. HttpCall(request') /\ request'.pc = "code" /\ request'.right = t.mine
    <2>1. HttpCall(request) BY DEF HttpInv
    <2>2. SetsRight(request', request, "code", t.mine) BY <1>1 DEF SetsRight
    <2> QED BY <2>1, <2>2, CallRight
  <1>7. t.mine = TRUE /\ t.head = Http!Heading(r) BY <1>3, HeadIs
  <1> HIDE DEF t
  <1>8. HttpStream(link', request', response', outcome'.of)
    <2>1. HttpRead(request', r, 0) BY <1>6 DEF HttpRead
    <2>2. 0 \in Nat OBVIOUS
    <2> QED BY <1>1, <1>5, <1>6, <1>7, <2>1, <2>2 DEF HttpStream, InBody
  <1>9. HttpOwn' /\ Http!ResponseIsOwn'
    <2>1. outcome'.of # "request" BY <1>1 DEF HttpInv, HttpOwn, InBody
    <2>2. request'.right BY <1>6, <1>7
    <2> QED BY <1>1, <2>1, <2>2 DEF HttpInv, HttpOwn, Http!ResponseIsOwn
  <1>10. HttpTo' BY <1>1, <1>4, <1>6, HttpGoesOn
  <1> QED BY <1>4, <1>6, <1>8, <1>9, <1>10 DEF HttpInv, HttpPcs

LEMMA HttpReadsMixed == ASSUME HttpInv, Http!ReadMixed PROVE HttpInv'
  <1>1. /\ request.pc = "head" /\ link.late /\ UNCHANGED <<client, link, target, outcome>>
        /\ request' = [request EXCEPT !.pc = "code", !.right = FALSE]
    BY DEF Http!ReadMixed
  <1>2. HttpCall(request') /\ request'.pc = "code"
    <2> DEFINE no == FALSE
    <2>1. HttpCall(request) BY DEF HttpInv
    <2>2. SetsRight(request', request, "code", no) BY <1>1 DEF SetsRight
    <2> HIDE DEF no
    <2> QED BY <2>1, <2>2, CallRight
  <1>3. HttpStream(link', request', response', outcome'.of)
    BY <1>1, <1>2 DEF HttpStream, InBody
  <1>4. HttpOwn' /\ Http!ResponseIsOwn'
    <2>1. outcome'.of # "request" BY <1>1 DEF HttpInv, HttpOwn, InBody
    <2> QED BY <1>1, <2>1 DEF HttpInv, HttpOwn, Http!ResponseIsOwn
  <1>5. HttpTo' BY <1>1, <1>2, HttpGoesOn DEF Http!Connected
  <1> QED BY <1>1, <1>2, <1>3, <1>4, <1>5 DEF HttpInv, HttpPcs

LEMMA HttpRedirects == ASSUME HttpInv, Http!Redirect PROVE HttpInv'
  <1>1. /\ request.pc = "code" /\ Http!SetUrl /\ UNCHANGED <<client, outcome>>
    BY DEF Http!Redirect
  <1>2. HttpCall(request') /\ request'.pc = "connect"
    <2> DEFINE n == request.count + 1
               m == IF response.code = 303 THEN "GET" ELSE request.method
               h == [Http!Idle EXCEPT !.pc = "connect"]
               i == [h EXCEPT !.count = n]
               j == [i EXCEPT !.method = m]
    <2>1. request' = j BY DEF Http!Redirect
    <2> HIDE DEF n, m
    <2>0. HttpCall(h) /\ h.pc = "connect" BY CallAt, IdleIs
    <2> HIDE DEF h
    <2>2. i = [pc |-> "connect", method |-> h.method, count |-> n, left |-> h.left, got |-> h.got,
               right |-> h.right]
      BY <2>0 DEF HttpCall
    <2> HIDE DEF i
    <2>3. j = [pc |-> "connect", method |-> m, count |-> n, left |-> h.left, got |-> h.got,
               right |-> h.right]
      BY <2>2
    <2> QED BY <2>1, <2>3 DEF HttpCall
  <1>3. link.wire \in Seq(HttpBytes) BY <1>1, WireIsBytes
  <1>4. outcome'.of # "request" BY <1>1 DEF HttpInv, HttpOwn, InBody
  <1>5. outcome'.of = "body" => outcome'.mine \/ outcome'.late
    BY <1>1 DEF HttpInv, Http!ResponseIsOwn
  <1>6. client \/ link.to = Http!Nowhere BY DEF HttpInv, HttpTo
  <1>7. Http!Connected /\ link.to # Http!Nowhere => Host[link.to] = Host[target] \/ link.kept
    BY DEF HttpInv, HttpTo
  <1>8. CASE location \notin Http!Targets
    <2>1. UNCHANGED <<link, target>> BY <1>1, <1>8 DEF Http!SetUrl
    <2>2. HttpTo' BY <1>1, <1>2, <1>6, <1>7, <2>1 DEF HttpTo, Http!Connected
    <2> QED BY <1>2, <1>3, <1>4, <1>5, <2>1, <2>2, HttpRests DEF HttpInv
  <1>9. CASE location \in Http!Targets
    <2>1. target' = location BY <1>1, <1>9 DEF Http!SetUrl
    <2>2. CASE link' = Http!NoLink
      <3>1. HttpTo' BY <2>2, NoLinkIs DEF HttpTo
      <3> QED BY <1>2, <1>4, <1>5, <2>2, <3>1, HttpRests, NoLinkIs
    <2>3. CASE /\ ~(Host[target] # Host[location] /\ Http!Connected /\ reuse)
               /\ link' = Http!Disconnected(TRUE)
      <3>1. HttpLink(link') /\ link'.wire \in Seq(HttpBytes)
        BY <1>3, <2>3, DisconnectedIs
      <3>2. CASE Http!Connected /\ reuse /\ link'.to = link.to /\ link'.kept = link.kept
        <4>1. HttpTo' BY <1>1, <1>2, <1>6, <1>7, <2>1, <2>3, <3>2 DEF HttpTo
        <4> QED BY <1>2, <1>4, <1>5, <3>1, <4>1, HttpRests
      <3>3. CASE link' = link /\ ~Http!Connected
        <4>1. ~Http!Connected' BY <1>1, <3>3 DEF Http!Connected
        <4>2. HttpTo' BY <1>1, <1>2, <1>6, <3>3, <4>1 DEF HttpTo
        <4> QED BY <1>2, <1>4, <1>5, <3>1, <4>2, HttpRests
      <3> QED BY <2>2, <2>3, <3>2, <3>3, DisconnectedIs
    <2> QED BY <1>1, <1>9, <2>2, <2>3 DEF Http!SetUrl
  <1> QED BY <1>8, <1>9

LEMMA HttpReturns == ASSUME HttpInv, Http!Return PROVE HttpInv'
  <1>1. CASE Http!Fail BY <1>1, HttpFails
  <1>2. CASE ~Http!Fail
    <2>1. /\ request.pc = "code" /\ UNCHANGED <<client, link, target, response>>
          /\ request' = Http!Idle
          /\ outcome' = [of |-> "request", mine |-> request.right, late |-> link.late]
      BY <1>2 DEF Http!Return
    <2>2. HttpCall(request') /\ request'.pc = "idle" BY <2>1, IdleIs
    <2>3. outcome'.of = "request" /\ outcome'.mine = request.right /\ outcome'.late = link.late
      BY <2>1
    <2>4. link.wire \in Seq(HttpBytes) BY <2>1, WireIsBytes
    <2>5. \/ link.late
          \/ \E r \in Responses, p \in Nat :
                response = Http!Heading(r) /\ HttpRead(request, r, p) /\ Comes(link, Http!Body(r), p)
      BY <2>1 DEF HttpInv, HttpStream
    <2>6. \A r, p : HttpRead(request, r, p) => HttpRead(request', r, p)
      BY <2>1, <2>2 DEF HttpRead
    <2>7. HttpStream(link', request', response', outcome'.of)
      BY <2>1, <2>2, <2>4, <2>5, <2>6 DEF HttpStream, InBody
    <2>8. request.right \/ link.late BY <2>1 DEF HttpInv, HttpOwn
    <2>9. HttpOwn'
      <3>1. outcome'.mine \/ link'.late BY <2>1, <2>3, <2>8
      <3> QED BY <2>2, <3>1 DEF HttpOwn, InBody
    <2>10. Http!ResponseIsOwn'
      <3>1. outcome'.mine \/ outcome'.late BY <2>3, <2>8
      <3> QED BY <3>1 DEF Http!ResponseIsOwn
    <2>11. HttpTo' BY <2>1, <2>2, HttpGoesOn DEF Http!Connected
    <2> QED BY <2>1, <2>2, <2>7, <2>9, <2>10, <2>11 DEF HttpInv, HttpPcs
  <1> QED BY <1>1, <1>2

-----------------------------------------------------------------------------
\* A body is read to its end: the call says so, and the connection is left to the next.
LEMMA HttpFinishes ==
  ASSUME HttpInv, request.pc \in InBody, Http!Finish,
         \/ link.late
         \/ response.size = -1 /\ ~response.chunked
         \/ request.got = response.body
  PROVE  HttpInv'
  <1>1. /\ link' = Http!Disconnected(canReuse) /\ request' = Http!Idle
        /\ UNCHANGED <<client, target>>
        /\ outcome' = [of |-> IF response.size = -1 /\ ~response.chunked THEN "rest" ELSE "body",
                       late |-> link.late,
                       mine |-> request.right /\ request.got = response.body]
    BY DEF Http!Finish
  <1>2. HttpCall(request') /\ request'.pc = "idle" BY <1>1, IdleIs
  <1>3. link.wire \in Seq(HttpBytes) BY WireIsBytes
  <1>4. HttpLink(link') /\ link'.wire \in Seq(HttpBytes) BY <1>1, <1>3, DisconnectedIs
  <1>5. /\ outcome'.of = IF response.size = -1 /\ ~response.chunked THEN "rest" ELSE "body"
        /\ outcome'.late = link.late
        /\ outcome'.mine = (request.right /\ request.got = response.body)
    BY <1>1
  <1>6. outcome'.of # "request" BY <1>5
  <1>7. outcome'.of = "body" => outcome'.mine \/ outcome'.late
    <2>1. request.right \/ link.late BY DEF HttpInv, HttpOwn
    <2>2. CASE link.late BY <1>5, <2>2
    <2>3. CASE response.size = -1 /\ ~response.chunked BY <1>5, <2>3
    <2>4. CASE request.got = response.body BY <1>5, <2>1, <2>4
    <2> QED BY <2>2, <2>3, <2>4
  <1>8. HttpTo'
    <2>1. client \/ link.to = Http!Nowhere BY DEF HttpInv, HttpTo
    <2>2. Http!Connected /\ link.to # Http!Nowhere => Host[link.to] = Host[target] \/ link.kept
      BY DEF HttpInv, HttpTo
    <2>3. CASE link' = Http!NoLink BY <2>3, NoLinkIs DEF HttpTo
    <2>4. CASE Http!Connected /\ link'.to = link.to /\ link'.kept = link.kept
      BY <1>1, <1>2, <2>1, <2>2, <2>4 DEF HttpTo
    <2>5. CASE link' = link /\ ~Http!Connected
      <3>1. ~Http!Connected' BY <1>1, <2>5 DEF Http!Connected
      <3> QED BY <1>1, <1>2, <2>1, <2>5, <3>1 DEF HttpTo
    <2> QED BY <1>1, <2>3, <2>4, <2>5, DisconnectedIs
  <1> QED BY <1>2, <1>4, <1>6, <1>7, <1>8, HttpRests

\* What follows of the body after a step of the call that keeps the answer.
LEMMA HttpFollows ==
  ASSUME HttpInv, request.pc \in InBody \cup {"idle"}, UNCHANGED <<client, target, response, outcome>>,
         HttpCall(request'), request'.pc \in InBody, HttpLink(link'),
         link'.to = link.to, link'.kept = link.kept, Http!Connected' => Http!Connected,
         link.late => link'.late, request'.right \/ link'.late,
         link'.late \/ \E r \in Responses, p \in Nat :
            response = Http!Heading(r) /\ HttpRead(request', r, p) /\ Comes(link', Http!Body(r), p)
  PROVE  HttpInv'
  <1>1. HttpStream(link', request', response', outcome'.of) BY DEF HttpStream, InBody
  <1>2. HttpOwn' BY DEF HttpInv, HttpOwn, InBody
  <1>3. Http!ResponseIsOwn' BY DEF HttpInv, Http!ResponseIsOwn
  <1>4. HttpTo'
    <2>1. request'.pc \notin {"send", "upload", "answer"} BY DEF InBody
    <2> QED BY <2>1, HttpGoesOn
  <1> QED BY <1>1, <1>2, <1>3, <1>4 DEF HttpInv, HttpPcs

LEMMA HttpReadsBody == ASSUME HttpInv, Http!ReadBody PROVE HttpInv'
  <1>1. CASE Http!Fail BY <1>1, HttpFails
  <1>2. CASE ~Http!Fail
    <2> DEFINE pc == IF response.chunked THEN "chunk" ELSE "data"
    <2>1. /\ request.pc = "idle" /\ outcome.of = "request"
          /\ UNCHANGED <<client, link, target, response, outcome>>
          /\ request' = [Http!Idle EXCEPT !.pc = pc, !.left = response.size, !.right = outcome.mine]
      BY <1>2 DEF Http!ReadBody
    <2>2. HttpCall(request') /\ request'.pc = pc /\ request'.left = response.size
          /\ request'.right = outcome.mine /\ request'.got = 0
      <3> DEFINE m == [Http!Idle EXCEPT !.pc = pc]
      <3> HIDE DEF pc
      <3>2. HttpCall(m) /\ m.pc = pc /\ m.got = 0 BY CallAt, IdleIs
      <3>3. request' = [[m EXCEPT !.left = response.size] EXCEPT !.right = outcome.mine] BY <2>1
      <3> HIDE DEF m
      <3>4. [m EXCEPT !.left = response.size]
              = [pc |-> pc, method |-> m.method, count |-> m.count, left |-> response.size,
                 got |-> 0, right |-> m.right]
        BY <3>2 DEF HttpCall
      <3>5. request' = [pc |-> pc, method |-> m.method, count |-> m.count, left |-> response.size,
                        got |-> 0, right |-> outcome.mine]
        BY <3>3, <3>4
      <3> QED BY <3>5 DEF HttpCall
    <2>3. pc \in InBody BY DEF InBody
    <2>4. link'.late \/ \E r \in Responses, p \in Nat :
            response = Http!Heading(r) /\ HttpRead(request', r, p) /\ Comes(link', Http!Body(r), p)
      <3>1. CASE link.late BY <2>1, <3>1
      <3>2. CASE ~link.late
        <4>1. PICK r \in Responses, p \in Nat :
                response = Http!Heading(r) /\ HttpRead(request, r, p) /\ Comes(link, Http!Body(r), p)
          BY <2>1, <3>2 DEF HttpInv, HttpStream
        <4>2. p = 0 BY <2>1, <4>1 DEF HttpRead
        <4>3. response.chunked = r.chunked /\ response.size = r.size BY <4>1 DEF Http!Heading
        <4>4. r.body \in Nat /\ (~r.chunked => r.size \in {-1, r.body}) BY LibrarySizes
        <4>5. HttpRead(request', r, 0)
          <5>1. CASE r.chunked
            <6>1. request'.pc = "chunk" BY <2>2, <4>3, <5>1
            <6>2. 0 \in Nat /\ 0 = 3 * 0 OBVIOUS
            <6> QED BY <2>2, <5>1, <6>1, <6>2 DEF HttpRead
          <5>2. CASE ~r.chunked
            <6>1. request'.pc = "data" BY <2>2, <4>3, <5>2
            <6>2. request'.left = r.size /\ request'.got = 0 BY <2>2, <4>3
            <6>3. \/ r.size = -1 /\ request'.left = -1
                  \/ r.size = r.body /\ request'.left \in Nat /\ request'.left + request'.got = r.body
              BY <4>4, <5>2, <6>2
            <6>4. request'.got \in Nat /\ 0 = request'.got BY <6>2
            <6> QED BY <5>2, <6>1, <6>3, <6>4 DEF HttpRead
          <5> QED BY <5>1, <5>2
        <4> QED BY <2>1, <4>1, <4>2, <4>5
      <3> QED BY <3>1, <3>2
    <2>5. request'.right \/ link'.late BY <2>1, <2>2 DEF HttpInv, HttpOwn
    <2>6. HttpLink(link') /\ (Http!Connected' => Http!Connected)
      BY <2>1 DEF HttpInv, Http!Connected
    <2> HIDE DEF pc
    <2> QED BY <2>1, <2>2, <2>3, <2>4, <2>5, <2>6, HttpFollows
  <1> QED BY <1>1, <1>2

\* The next token of a body, and where the call is once it has read it.
LEMMA BodyToken ==
  ASSUME HttpInv, request.pc \in InBody, link.in # <<>>, link' = [link EXCEPT !.in = Tail(@)]
  PROVE  \E r \in Responses, p \in Nat :
            /\ response = Http!Heading(r) /\ HttpRead(request, r, p)
            /\ Comes(link', Http!Body(r), p + 1)
            /\ p + 1 \in 1 .. ByteCount(r) /\ Head(link.in) = Http!Body(r)[p + 1]
  <1>1. ~link.late BY LinkRead
  <1>2. PICK r \in Responses, p \in Nat :
          response = Http!Heading(r) /\ HttpRead(request, r, p) /\ Comes(link, Http!Body(r), p)
    BY <1>1 DEF HttpInv, HttpStream
  <1>3. Len(Http!Body(r)) = ByteCount(r) /\ ByteCount(r) \in Nat BY BodyIs
  <1>4. /\ Comes(link', Http!Body(r), p + 1) /\ Head(link.in) = Http!Body(r)[p + 1]
        /\ p + 1 <= Len(Http!Body(r))
    BY <1>2, <1>3, LinkRead
  <1>5. p + 1 \in 1 .. ByteCount(r) BY <1>3, <1>4
  <1> QED BY <1>2, <1>4, <1>5

LEMMA HttpReadsData == ASSUME HttpInv, Http!ReadData PROVE HttpInv'
  <1>1. CASE Http!Fail BY <1>1, HttpFails
  <1>2. CASE ~Http!Fail
    <2> DEFINE t == Head(link.in)
               got == request.got + 1
               left == IF request.left > 0 THEN request.left - 1 ELSE request.left
               right == request.right /\ t.mine /\ t.kind = "byte" /\ t.n = request.got + 1
    <2>1. /\ request.pc = "data" /\ request.left # 0 /\ link.in # <<>>
          /\ link' = [link EXCEPT !.in = Tail(@)]
          /\ UNCHANGED <<client, target, response, outcome>>
          /\ SetsGot(request', request, got, left, right)
      BY <1>2 DEF Http!ReadData, SetsGot
    <2>2. PICK r \in Responses, p \in Nat :
            /\ response = Http!Heading(r) /\ HttpRead(request, r, p)
            /\ Comes(link', Http!Body(r), p + 1)
            /\ p + 1 \in 1 .. ByteCount(r) /\ t = Http!Body(r)[p + 1]
      BY <2>1, BodyToken DEF InBody
    <2>3. r.body \in Nat BY LibrarySizes
    <2>4. \/ /\ ~r.chunked /\ request.got \in Nat /\ p = request.got
             /\ \/ r.size = -1 /\ request.left = -1
                \/ r.size = r.body /\ request.left \in Nat /\ request.left + request.got = r.body
          \/ /\ r.chunked /\ request.got \in Nat /\ request.left = 1 /\ request.got < r.body
             /\ p = 3 * request.got + 1
      BY <2>1, <2>2 DEF HttpRead
    <2>5. t.mine = TRUE /\ t.kind = "byte" /\ t.n = request.got + 1
      <3>1. CASE ~r.chunked
        <4> DEFINE i == p + 1
        <4>1. i \in 1 .. ByteCount(r) /\ t = Http!Body(r)[i] BY <2>2
        <4>2. i = request.got + 1 BY <2>4, <3>1
        <4> HIDE DEF i, t
        <4>3. t.mine = TRUE /\ t.kind = "byte" /\ t.n = i BY <3>1, <4>1, BodyAt
        <4> QED BY <4>2, <4>3
      <3>2. CASE r.chunked
        <4> DEFINE i == 3 * request.got + 2
        <4>1. p + 1 = i BY <2>4, <3>2
        <4>2. i % 3 = 2 /\ i < 3 * r.body /\ i \div 3 = request.got BY <2>3, <2>4, <3>2
        <4>3. i \in 1 .. ByteCount(r) /\ t = Http!Body(r)[i] BY <2>2, <4>1
        <4> HIDE DEF i, t
        <4>4. t.mine = TRUE /\ t.kind = "byte" /\ t.n = i \div 3 + 1
          BY <3>2, <4>2, <4>3, BodyAt
        <4> QED BY <4>2, <4>4
      <3> QED BY <3>1, <3>2
    <2>6. right <=> request.right BY <2>5
    <2>7. got = request.got + 1
          /\ left = IF request.left > 0 THEN request.left - 1 ELSE request.left
      OBVIOUS
    <2> HIDE DEF t, got, left, right
    <2>8. /\ HttpCall(request') /\ request'.pc = "data" /\ request'.got = got
          /\ request'.left = left /\ request'.right = right
      <3>1. HttpCall(request) BY DEF HttpInv
      <3> QED BY <2>1, <3>1, CallGot
    <2>9. HttpRead(request', r, p + 1)
      <3>1. CASE ~r.chunked
        <4>1. got \in Nat /\ p + 1 = got BY <2>4, <2>7, <3>1
        <4>2. \/ r.size = -1 /\ left = -1
              \/ r.size = r.body /\ left \in Nat /\ left + got = r.body
          BY <2>1, <2>3, <2>4, <2>7, <3>1
        <4> QED BY <2>8, <3>1, <4>1, <4>2 DEF HttpRead
      <3>2. CASE r.chunked
        <4>1. request.got \in Nat /\ request.left = 1 /\ p = 3 * request.got + 1 BY <2>4, <3>2
        <4>2. left = 0 BY <2>7, <4>1
        <4>3. got \in Nat /\ p + 1 = 3 * got - 1 BY <2>7, <4>1
        <4> QED BY <2>8, <3>2, <4>2, <4>3 DEF HttpRead
      <3> QED BY <3>1, <3>2
    <2>10. p + 1 \in Nat OBVIOUS
    <2>11. request'.right
      <3>1. ~link.late BY <2>1, LinkRead
      <3>2. request.right BY <2>1, <3>1 DEF HttpInv, HttpOwn, InBody
      <3> QED BY <2>6, <2>8, <3>2
    <2>12. HttpLink(link') /\ link'.to = link.to /\ link'.kept = link.kept /\ ~link.late
           /\ (Http!Connected' => Http!Connected)
      BY <2>1, LinkRead
    <2>13. request.pc \in InBody /\ request'.pc \in InBody BY <2>1, <2>8 DEF InBody
    <2>14. \E q \in Responses, n \in Nat :
              response = Http!Heading(q) /\ HttpRead(request', q, n) /\ Comes(link', Http!Body(q), n)
      BY <2>2, <2>9, <2>10
    <2> QED BY <2>1, <2>8, <2>11, <2>12, <2>13, <2>14, HttpFollows
  <1> QED BY <1>1, <1>2

LEMMA HttpDataEnds == ASSUME HttpInv, Http!DataEnds PROVE HttpInv'
  <1>1. request.pc = "data" /\ request.pc \in InBody BY DEF Http!DataEnds, InBody
  <1>2. CASE Http!Fail BY <1>2, HttpFails
  <1>3. CASE ~(request.left > 0) /\ ~response.chunked /\ Http!Finish
    <2>1. ASSUME ~link.late, response.size # -1 PROVE request.got = response.body
      <3>1. PICK r \in Responses, p \in Nat : response = Http!Heading(r) /\ HttpRead(request, r, p)
        BY <1>1, <2>1 DEF HttpInv, HttpStream
      <3>2. response.chunked = r.chunked /\ response.size = r.size /\ response.body = r.body
        BY <3>1 DEF Http!Heading
      <3>3. r.body \in Nat BY LibrarySizes
      <3>4. request.got \in Nat /\ request.left \in Nat /\ request.left + request.got = r.body
        BY <1>1, <1>3, <2>1, <3>1, <3>2 DEF HttpRead
      <3>5. request.got = r.body BY <1>3, <3>3, <3>4
      <3> QED BY <3>2, <3>5
    <2> QED BY <1>1, <1>3, <2>1, HttpFinishes
  <1>4. CASE /\ ~(request.left > 0) /\ response.chunked
             /\ request' = [request EXCEPT !.pc = "crlf"]
             /\ UNCHANGED <<client, link, target, response, outcome>>
    <2>1. HttpCall(request') /\ request'.pc = "crlf" /\ request'.got = request.got
          /\ request'.right = request.right
      <3>1. HttpCall(request) BY DEF HttpInv
      <3>2. request' = [request EXCEPT !.pc = "crlf"] BY <1>4
      <3> QED BY <3>1, <3>2, CallAt
    <2>2. link'.late \/ \E r \in Responses, p \in Nat :
            response = Http!Heading(r) /\ HttpRead(request', r, p) /\ Comes(link', Http!Body(r), p)
      <3>1. CASE link.late BY <1>4, <3>1
      <3>2. CASE ~link.late
        <4>1. PICK r \in Responses, p \in Nat :
                response = Http!Heading(r) /\ HttpRead(request, r, p) /\ Comes(link, Http!Body(r), p)
          BY <1>1, <3>2 DEF HttpInv, HttpStream
        <4>2. r.chunked BY <1>4, <4>1 DEF Http!Heading
        <4>3. request.got \in Nat /\ p = 3 * request.got - 1
          BY <1>1, <1>4, <4>1, <4>2 DEF HttpRead
        <4>4. HttpRead(request', r, p) BY <2>1, <4>2, <4>3 DEF HttpRead
        <4> QED BY <1>4, <4>1, <4>4
      <3> QED BY <3>1, <3>2
    <2>3. request'.right \/ link'.late BY <1>1, <1>4, <2>1 DEF HttpInv, HttpOwn
    <2>4. HttpLink(link') /\ (Http!Connected' => Http!Connected)
      BY <1>4 DEF HttpInv, Http!Connected
    <2>5. request'.pc \in InBody BY <2>1 DEF InBody
    <2> QED BY <1>1, <1>4, <2>1, <2>2, <2>3, <2>4, <2>5, HttpFollows
  <1> QED BY <1>2, <1>3, <1>4 DEF Http!DataEnds

LEMMA HttpReadsChunk == ASSUME HttpInv, Http!ReadChunk PROVE HttpInv'
  <1> DEFINE t == Head(link.in)
             rest == [link EXCEPT !.in = Tail(@)]
  <1>1. request.pc \in {"chunk", "crlf"} /\ request.pc \in InBody /\ link.in # <<>>
    BY DEF Http!ReadChunk, InBody
  <1>2. CASE Http!Fail BY <1>2, HttpFails
  <1>3. CASE /\ request.pc = "crlf" /\ link' = rest /\ request' = [request EXCEPT !.pc = "chunk"]
             /\ UNCHANGED <<client, target, response, outcome>>
    <2>1. HttpCall(request') /\ request'.pc = "chunk" /\ request'.got = request.got
          /\ request'.right = request.right
      <3>1. HttpCall(request) BY DEF HttpInv
      <3>2. request' = [request EXCEPT !.pc = "chunk"] BY <1>3
      <3> QED BY <3>1, <3>2, CallAt
    <2>2. PICK r \in Responses, p \in Nat :
            response = Http!Heading(r) /\ HttpRead(request, r, p) /\ Comes(link', Http!Body(r), p + 1)
      BY <1>1, <1>3, BodyToken
    <2>3. r.chunked /\ request.got \in Nat /\ p = 3 * request.got - 1
      BY <1>3, <2>2 DEF HttpRead
    <2>4. p + 1 \in Nat /\ p + 1 = 3 * request.got BY <2>3
    <2>5. HttpRead(request', r, p + 1) BY <2>1, <2>3, <2>4 DEF HttpRead
    <2>6. HttpLink(link') /\ link'.to = link.to /\ link'.kept = link.kept /\ ~link.late
          /\ (Http!Connected' => Http!Connected)
      BY <1>1, <1>3, LinkRead
    <2>7. request'.right
      BY <1>1, <2>1, <2>6 DEF HttpInv, HttpOwn
    <2>8. \E q \in Responses, n \in Nat :
            response = Http!Heading(q) /\ HttpRead(request', q, n) /\ Comes(link', Http!Body(q), n)
      BY <2>2, <2>4, <2>5
    <2>9. request'.pc \in InBody BY <2>1 DEF InBody
    <2> QED BY <1>1, <1>3, <2>1, <2>6, <2>7, <2>8, <2>9, HttpFollows
  <1>4. CASE /\ request.pc = "chunk" /\ t.kind = "chunk" /\ t.n > 0 /\ link' = rest
             /\ request' = [request EXCEPT !.pc = "data", !.left = t.n]
             /\ UNCHANGED <<client, target, response, outcome>>
    <2>1. HttpCall(request') /\ request'.pc = "data" /\ request'.got = request.got
          /\ request'.right = request.right /\ request'.left = t.n
      <3>1. HttpCall(request) BY DEF HttpInv
      <3>2. SetsLeft(request', request, "data", t.n) BY <1>4 DEF SetsLeft
      <3> QED BY <3>1, <3>2, CallLeft
    <2>2. PICK r \in Responses, p \in Nat :
            /\ response = Http!Heading(r) /\ HttpRead(request, r, p)
            /\ Comes(link', Http!Body(r), p + 1)
            /\ p + 1 \in 1 .. ByteCount(r) /\ t = Http!Body(r)[p + 1]
      BY <1>1, <1>4, BodyToken
    <2>3. r.chunked /\ request.got \in Nat /\ p = 3 * request.got
      BY <1>4, <2>2 DEF HttpRead
    <2> HIDE DEF t
    <2>4. (p + 1) % 3 = 1 BY <2>3
    <2>5. t.n = IF p + 1 < 3 * r.body THEN 1 ELSE 0 BY <2>2, <2>3, <2>4, BodyAt
    <2>6. t.n = 1 /\ p + 1 < 3 * r.body BY <1>4, <2>5
    <2>7. request.got < r.body
      <3>1. r.body \in Nat BY LibrarySizes
      <3> QED BY <2>3, <2>6, <3>1
    <2>8. HttpRead(request', r, p + 1) BY <2>1, <2>3, <2>6, <2>7 DEF HttpRead
    <2>9. HttpLink(link') /\ link'.to = link.to /\ link'.kept = link.kept /\ ~link.late
          /\ (Http!Connected' => Http!Connected)
      BY <1>1, <1>4, LinkRead
    <2>10. request'.right BY <1>1, <2>1, <2>9 DEF HttpInv, HttpOwn
    <2>11. \E q \in Responses, n \in Nat :
             response = Http!Heading(q) /\ HttpRead(request', q, n) /\ Comes(link', Http!Body(q), n)
      <3>1. p + 1 \in Nat OBVIOUS
      <3> QED BY <2>2, <2>8, <3>1
    <2>12. request'.pc \in InBody BY <2>1 DEF InBody
    <2> QED BY <1>1, <1>4, <2>1, <2>9, <2>10, <2>11, <2>12, HttpFollows
  <1>5. CASE request.pc = "chunk" /\ t.kind = "chunk" /\ t.n = 0 /\ Http!Finish
    <2>1. ASSUME ~link.late PROVE request.got = response.body
      <3>1. PICK r \in Responses, p \in Nat :
              response = Http!Heading(r) /\ HttpRead(request, r, p) /\ Comes(link, Http!Body(r), p)
        BY <1>1, <2>1 DEF HttpInv, HttpStream
      <3>2. r.chunked /\ request.got \in Nat /\ p = 3 * request.got
        BY <1>5, <3>1 DEF HttpRead
      <3>3. response.body = r.body BY <3>1 DEF Http!Heading
      <3>4. r.body \in Nat BY LibrarySizes
      <3>5. t = Http!Body(r)[p + 1] /\ p + 1 <= Len(Http!Body(r))
        <4> DEFINE k == [wire |-> link.wire, in |-> Tail(link.in)]
        <4>1. Wired(link) BY DEF HttpInv, HttpLink, Wired
        <4>2. k.wire = link.wire /\ k.in = Tail(link.in) OBVIOUS
        <4> HIDE DEF k
        <4>3. Reads(link, k) BY <1>1, <4>2 DEF Reads
        <4>4. Len(Http!Body(r)) \in Nat BY BodyIs
        <4> QED BY <3>1, <4>1, <4>3, <4>4, ComesRead
      <3> HIDE DEF t
      <3>6. Len(Http!Body(r)) = 3 * r.body + 2 BY <3>2, BodyIs DEF ByteCount
      <3>7. p + 1 \in 1 .. ByteCount(r) BY <3>1, <3>2, <3>4, <3>5, <3>6 DEF ByteCount
      <3>8. (p + 1) % 3 = 1 BY <3>2
      <3>9. t.n = IF p + 1 < 3 * r.body THEN 1 ELSE 0 BY <3>2, <3>5, <3>7, <3>8, BodyAt
      <3>10. ~(p + 1 < 3 * r.body) BY <1>5, <3>9
      <3>11. request.got = r.body BY <3>2, <3>4, <3>5, <3>6, <3>10
      <3> QED BY <3>3, <3>11
    <2> QED BY <1>1, <1>5, <2>1, HttpFinishes
  <1> QED BY <1>2, <1>3, <1>4, <1>5 DEF Http!ReadChunk

-----------------------------------------------------------------------------
\* The link k is the link l after some tokens have arrived, or were lost at its end.
Moved(l, k) ==
    /\ k.to = l.to /\ k.kept = l.kept /\ k.late = l.late /\ HttpLink(k)
    /\ Silent(l) => Silent(k)
    /\ l.wire \in Seq(HttpBytes) => k.wire \in Seq(HttpBytes)
    /\ \A s : \A p \in Nat : Len(s) \in Nat /\ Comes(l, s, p) => Comes(k, s, p)

LEMMA HttpMoves ==
  ASSUME HttpInv, Moved(link, link'), UNCHANGED <<client, target, response, request, outcome>>,
         Http!Connected' => Http!Connected
  PROVE  HttpInv'
  <1>1. HttpTo' BY DEF HttpInv, HttpTo, Moved
  <1>2. HttpOwn' /\ Http!ResponseIsOwn' BY DEF HttpInv, HttpOwn, Http!ResponseIsOwn, Moved
  <1>3. HttpLink(link') /\ HttpCall(request') /\ request'.pc \in HttpPcs BY DEF HttpInv, Moved
  <1>4. HttpStream(link', request', response', outcome'.of)
    <2>1. request.pc \in {"idle", "connect"} => link'.wire \in Seq(HttpBytes)
      BY DEF HttpInv, HttpStream, Moved
    <2>2. request.pc = "send" => Silent(link') BY DEF HttpInv, HttpStream, Moved
    <2>3. ASSUME request.pc \in {"upload", "answer", "head"}
          PROVE  Silent(link') \/ \E r \in Responses : Comes(link', Http!Answer(r), 0)
      <3>1. CASE Silent(link) BY <3>1 DEF Moved
      <3>2. CASE ~Silent(link)
        <4>1. PICK r \in Responses : Comes(link, Http!Answer(r), 0)
          BY <2>3, <3>2 DEF HttpInv, HttpStream
        <4>2. Len(Http!Answer(r)) \in Nat /\ 0 \in Nat BY AnswerIs, BodyIs
        <4>3. Comes(link', Http!Answer(r), 0) BY <4>1, <4>2 DEF Moved
        <4> QED BY <4>3
      <3> QED BY <3>1, <3>2
    <2>4. ASSUME request.pc \in {"code"} \cup InBody \/ (request.pc = "idle" /\ outcome.of = "request")
          PROVE  \/ link'.late
                 \/ \E r \in Responses, p \in Nat :
                      response = Http!Heading(r) /\ HttpRead(request, r, p) /\ Comes(link', Http!Body(r), p)
      <3>1. CASE link.late BY <3>1 DEF Moved
      <3>2. CASE ~link.late
        <4>1. PICK r \in Responses, p \in Nat :
                response = Http!Heading(r) /\ HttpRead(request, r, p) /\ Comes(link, Http!Body(r), p)
          BY <2>4, <3>2 DEF HttpInv, HttpStream
        <4>2. Len(Http!Body(r)) \in Nat BY BodyIs
        <4>3. Comes(link', Http!Body(r), p) BY <4>1, <4>2 DEF Moved
        <4> QED BY <4>1, <4>3
      <3> QED BY <3>1, <3>2
    <2> QED BY <2>1, <2>2, <2>3, <2>4 DEF HttpStream
  <1> QED BY <1>1, <1>2, <1>3, <1>4 DEF HttpInv

LEMMA HttpArrives == ASSUME HttpInv, Http!Arrive PROVE HttpInv'
  <1>1. /\ link.wire # <<>> /\ UNCHANGED <<client, target, response, request, outcome>>
        /\ link' = [link EXCEPT !.wire = Tail(@), !.in = Append(@, Head(link.wire))]
    BY DEF Http!Arrive
  <1>2. link' = [to |-> link.to, wire |-> Tail(link.wire), in |-> Append(link.in, Head(link.wire)),
                 closed |-> link.closed, kept |-> link.kept, late |-> link.late]
    BY <1>1 DEF HttpInv, HttpLink
  <1>3. /\ link'.to = link.to /\ link'.wire = Tail(link.wire) /\ link'.closed = link.closed
        /\ link'.in = Append(link.in, Head(link.wire)) /\ link'.kept = link.kept
        /\ link'.late = link.late
    BY <1>2
  <1>4. ~Silent(link) BY <1>1 DEF Silent
  <1>5. link.to # Http!Nowhere /\ ~link.late BY <1>4 DEF HttpInv, HttpLink
  <1>6. Wired(link) /\ Arrives(link, link') BY <1>1, <1>3 DEF HttpInv, HttpLink, Wired, Arrives
  <1>7. Wired(link') /\ \A s : \A p \in Nat : Len(s) \in Nat /\ Comes(link, s, p) => Comes(link', s, p)
    BY <1>6, ComesArrives
  <1>8. HttpLink(link')
    <2>1. link' = [to |-> link'.to, wire |-> link'.wire, in |-> link'.in, closed |-> link'.closed,
                   kept |-> link'.kept, late |-> link'.late]
      BY <1>2, <1>3
    <2> QED BY <1>3, <1>5, <1>7, <2>1 DEF HttpLink, Wired
  <1>9. link.wire \in Seq(HttpBytes) => link'.wire \in Seq(HttpBytes) BY <1>1, <1>3
  <1>10. Moved(link, link') BY <1>3, <1>4, <1>7, <1>8, <1>9 DEF Moved
  <1>11. Http!Connected' => Http!Connected BY <1>1, <1>3 DEF Http!Connected
  <1> QED BY <1>1, <1>10, <1>11, HttpMoves

LEMMA HttpCloses == ASSUME HttpInv, Http!Close PROVE HttpInv'
  <1>1. PICK n \in 0 .. Len(link.wire) : link' = [link EXCEPT !.closed = TRUE, !.wire = SubSeq(@, 1, n)]
    BY DEF Http!Close
  <1>2. UNCHANGED <<client, target, response, request, outcome>> /\ ~link.closed /\ link.to # Http!Nowhere
    BY DEF Http!Close
  <1> DEFINE yes == TRUE
  <1>3. link' = [to |-> link.to, wire |-> SubSeq(link.wire, 1, n), in |-> link.in,
                 closed |-> yes, kept |-> link.kept, late |-> link.late]
    BY <1>1 DEF HttpInv, HttpLink
  <1> HIDE DEF yes
  <1>4. /\ link'.to = link.to /\ link'.wire = SubSeq(link.wire, 1, n) /\ link'.in = link.in
        /\ link'.kept = link.kept /\ link'.late = link.late
    BY <1>3
  <1>5. Wired(link) /\ Closes(link, link', n) BY <1>4 DEF HttpInv, HttpLink, Wired, Closes
  <1>6. /\ Wired(link') /\ (link.wire = <<>> => link'.wire = <<>>)
        /\ \A s : \A p \in Nat : Len(s) \in Nat /\ Comes(link, s, p) => Comes(link', s, p)
    BY <1>5, ComesCloses
  <1>7. Silent(link) => Silent(link') BY <1>4, <1>6 DEF Silent
  <1>8. HttpLink(link')
    <2>1. link' = [to |-> link'.to, wire |-> link'.wire, in |-> link'.in, closed |-> link'.closed,
                   kept |-> link'.kept, late |-> link'.late]
      BY <1>3
    <2>2. link.to = Http!Nowhere \/ link.late => Silent(link) BY DEF HttpInv, HttpLink
    <2> QED BY <1>4, <1>6, <1>7, <2>1, <2>2 DEF HttpLink, Wired
  <1>9. ASSUME link.wire \in Seq(HttpBytes) PROVE link'.wire \in Seq(HttpBytes)
    <2>1. \A i \in 1 .. n : i \in 1 .. Len(link.wire) BY <1>9
    <2>2. SubSeq(link.wire, 1, n) \in Seq(HttpBytes) BY <1>9, <2>1
    <2> QED BY <1>4, <2>2
  <1>10. Moved(link, link') BY <1>4, <1>6, <1>7, <1>8, <1>9 DEF Moved
  <1>11. Http!Connected' => Http!Connected BY <1>2, <1>4, <1>6 DEF Http!Connected
  <1> QED BY <1>2, <1>10, <1>11, HttpMoves

LEMMA HttpInit == ASSUME Http!Init PROVE HttpInv
  <1>1. /\ client = FALSE /\ link = Http!NoLink /\ request = Http!Idle /\ outcome = Http!NoResult
    BY DEF Http!Init
  <1>2. request.pc = "idle" /\ HttpCall(request) BY <1>1, IdleIs
  <1>3. outcome.of = "none" BY <1>1, NoResultIs
  <1>4. HttpLink(link) /\ link.wire \in Seq(HttpBytes) /\ link.to = Http!Nowhere BY <1>1, NoLinkIs
  <1>5. HttpTo BY <1>4 DEF HttpTo
  <1>6. HttpOwn /\ Http!ResponseIsOwn BY <1>2, <1>3 DEF HttpOwn, Http!ResponseIsOwn, InBody
  <1>7. HttpStream(link, request, response, outcome.of) BY <1>2, <1>3, <1>4 DEF HttpStream, InBody
  <1> QED BY <1>2, <1>4, <1>5, <1>6, <1>7 DEF HttpInv, HttpPcs

LEMMA HttpNext == ASSUME HttpInv, Http!Next PROVE HttpInv'
  <1>1. CASE \E t \in Http!Targets : Http!Begin(t) \/ Http!BeginHost(t) BY <1>1, HttpBegins
  <1>2. CASE \E b \in BOOLEAN : Http!SetReuse(b) BY <1>2, HttpStands DEF Http!SetReuse
  <1>3. CASE Http!End BY <1>3, HttpEnds
  <1>4. CASE Http!ReadBody BY <1>4, HttpReadsBody
  <1>5. CASE \E m \in {"GET", "POST", "STREAM", "ENDLESS"} : Http!SendRequest(m) BY <1>5, HttpSends
  <1>6. CASE Http!RequestStep
    <2>1. CASE Http!HeadMissing BY <2>1, HttpFails DEF Http!HeadMissing
    <2> QED
      BY <1>6, <2>1, HttpConnects, HttpSendsIt, HttpUploads, HttpAwaits, HttpReadsLine,
         HttpReadsMixed, HttpRedirects, HttpReturns
      DEF Http!RequestStep
  <1>7. CASE Http!BodyStep
    <2>1. CASE Http!ChunkMissing BY <2>1, HttpFails DEF Http!ChunkMissing
    <2> QED BY <1>7, <2>1, HttpReadsData, HttpDataEnds, HttpReadsChunk DEF Http!BodyStep
  <1>8. CASE Http!Arrive BY <1>8, HttpArrives
  <1>9. CASE Http!Close BY <1>9, HttpCloses
  <1> QED BY <1>1, <1>2, <1>3, <1>4, <1>5, <1>6, <1>7, <1>8, <1>9 DEF Http!Next

LEMMA HttpTells == ASSUME HttpInv PROVE Http!ResponseIsOwn /\ Http!SentToItsHost
  BY DEF HttpInv, HttpTo, Http!SentToItsHost

-----------------------------------------------------------------------------
(* The parts together: each keeps its own invariant, as no other changes its variables. *)
LibraryInv ==
    /\ ScanInv /\ ScanPicks /\ StationInv /\ CallbackInv /\ DnsInv /\ UdpInv /\ HttpInv
    /\ UpdateInv /\ OtaInv /\ StoreInv /\ FsInv /\ FsListed /\ ServeInv /\ ServeTags

\* In each part's first states its invariant holds.
LEMMA LibraryInit == Init => LibraryInv
  <1> SUFFICES ASSUME Init PROVE LibraryInv OBVIOUS
  <1>1. /\ Scan!Init /\ Station!Init /\ Callbacks!Init /\ Dns!Init /\ Udp!Init /\ Http!Init
        /\ Update!Init /\ Ota!Init /\ Store!Init /\ Fs!Init /\ Serve!Init
    BY DEF Init
  <1>2. FsListed BY <1>1 DEF Fs!Init, FsListed
  <1> QED
    BY <1>1, <1>2, ScanInit, ScanPicksInit, StationInit, CallbackInit, DnsInit, UdpInit,
       HttpInit, UpdateInit, OtaInit, StoreInit, FsInit, ServeInit, ServeTagsInit
    DEF LibraryInv

\* A step is, for each part, a step of it or one that leaves its variables alone.
LEMMA LibrarySteps ==
  ASSUME [Next]_vars
  PROVE  /\ Scan!Next \/ UNCHANGED scanVars
         /\ Station!Next \/ UNCHANGED stationVars
         /\ Callbacks!Next \/ UNCHANGED callbackVars
         /\ Dns!Next \/ UNCHANGED dnsVars
         /\ Udp!Next \/ UNCHANGED udpVars
         /\ Http!Next \/ UNCHANGED httpVars
         /\ Update!Next \/ UNCHANGED updateVars
         /\ Ota!Next \/ UNCHANGED otaVars
         /\ Store!Next \/ UNCHANGED storeVars
         /\ Fs!Next \/ UNCHANGED fileVars
         /\ Serve!Next \/ UNCHANGED serveVars
  <1>1. CASE Next BY <1>1 DEF Next
  <1>2. CASE UNCHANGED vars BY <1>2 DEF vars
  <1> QED BY <1>1, <1>2

LEMMA LibraryNext == LibraryInv /\ [Next]_vars => LibraryInv'
  <1> SUFFICES ASSUME LibraryInv, [Next]_vars PROVE LibraryInv' OBVIOUS
  <1>0. /\ ScanInv /\ ScanPicks /\ StationInv /\ CallbackInv /\ DnsInv /\ UdpInv /\ HttpInv
        /\ UpdateInv /\ OtaInv /\ StoreInv /\ FsInv /\ FsListed /\ ServeInv /\ ServeTags
    BY DEF LibraryInv
  <1>1. ScanInv' BY <1>0, LibrarySteps, ScanNext, ScanStands
  <1>2. StationInv' BY <1>0, LibrarySteps, StationNext, StationStands
  <1>3. DnsInv' BY <1>0, LibrarySteps, DnsNext, DnsStands
  <1>4. HttpInv'
    <2>1. CASE Http!Next BY <1>0, <2>1, HttpNext
    <2>2. CASE UNCHANGED httpVars BY <1>0, <2>2, HttpStands DEF httpVars
    <2> QED BY <2>1, <2>2, LibrarySteps
  <1>5. UpdateInv'
    <2>1. CASE Update!Next BY <1>0, <2>1, UpdateNext
    <2>2. CASE UNCHANGED updateVars
      BY <1>0, <2>2
      DEF updateVars, UpdateInv, UpdateShape, UpdateBits, UpdateCall, Update!OkMeansInstalled
    <2> QED BY <2>1, <2>2, LibrarySteps
  <1>6. OtaInv'
    <2>1. CASE Ota!Next BY <1>0, <2>1, OtaNext
    <2>2. CASE UNCHANGED otaVars
      BY <1>0, <2>2 DEF otaVars, OtaInv, OtaEnded, Ota!StatusIsTrue
    <2> QED BY <2>1, <2>2, LibrarySteps
  <1>7. StoreInv' BY <1>0, LibrarySteps, StoreNext, StoreStands
  <1>8. FsInv' /\ FsListed'
    <2>1. CASE Fs!Next BY <1>0, <2>1, FsNext, FsListedNext
    <2>2. CASE UNCHANGED fileVars
      BY <1>0, <2>2 DEF fileVars, FsInv, FsKnows, FsListed
    <2> QED BY <2>1, <2>2, LibrarySteps
  <1>10. ScanPicks' BY <1>0, LibrarySteps, ScanPicksNext, ScanPicksStand
  <1>11. CallbackInv' BY <1>0, LibrarySteps, CallbackNext, CallbackStands
  <1>12. UdpInv' BY <1>0, LibrarySteps, UdpNext, UdpStands
  <1>13. ServeTags' BY <1>0, LibrarySteps, ServeActs, ServeTagsStand
  <1>9. ServeInv'
    <2>1. CASE Serve!Next BY <1>0, <2>1, ServeNext
    <2>2. CASE UNCHANGED serveVars BY <1>0, <2>2, ServeChanges DEF serveVars
    <2> QED BY <2>1, <2>2, LibrarySteps
  <1> QED
    BY <1>1, <1>2, <1>3, <1>4, <1>5, <1>6, <1>7, <1>8, <1>9, <1>10, <1>11, <1>12, <1>13
    DEF LibraryInv

\* The invariant of every part holds throughout.
THEOREM SpecLibraryInv == Spec => []LibraryInv
  <1> QED BY LibraryInit, LibraryNext, PTL DEF Spec

\* An address is that of the name asked for, and an answer that of the request, which went to
\* its own host, whatever the callers, names, hosts and responses: hostByName's done bit is
\* cleared and set by the caller that has taken the idle bit, and what is on an HTTP
\* connection is always the rest of one response behind what the call has read of it.
THEOREM SpecAnswersAreOwn == Spec => []AnswersAreOwn
  <1>1. LibraryInv => AnswersAreOwn BY DnsOwn, HttpTells DEF LibraryInv, AnswersAreOwn
  <1> QED BY <1>1, SpecLibraryInv, PTL

\* The station's status and bits, the count of networks found and the results of updates are
\* true once the events they follow from have been handled, for queues, networks and room of
\* any size.
THEOREM SpecStatusIsTrue == Spec => []StatusIsTrue
  <1>1. UpdateInv => Update!OkMeansInstalled /\ Update!UpdaterIsFree
    BY DEF UpdateInv, UpdateCall, Update!UpdaterIsFree
  <1>2. OtaInv => Ota!StatusIsTrue BY DEF OtaInv
  <1>3. LibraryInv => StatusIsTrue
    BY <1>1, <1>2, StationTells, ScanFits DEF LibraryInv, StatusIsTrue
  <1> QED BY <1>3, SpecLibraryInv, PTL

\* What was committed is kept, and a copy that is not dirty is what is stored, for every size,
\* value and number of handles, over any sequence of restarts and refused sets; and a file's
\* size is told right, whatever the paths and objects, but in the cases the module names.
THEOREM SpecStoredIsKept == Spec => []StoredIsKept
  <1>1. StoreInv => Store!StoredIsKept /\ Store!CleanMeansStored
    BY DEF StoreInv, StoreCopy, Store!CleanMeansStored, Store!Usable
  <1>2. LibraryInv => StoredIsKept BY <1>1, FsSizes DEF LibraryInv, StoredIsKept
  <1> QED BY <1>2, SpecLibraryInv, PTL

\* One answer goes to each request, and nothing of a refused upload reaches the program,
\* whatever the handlers, rewrites, files and urls.
THEOREM SpecAnsweredOnce == Spec => []AnsweredOnce
  <1>1. LibraryInv => AnsweredOnce BY DEF LibraryInv, ServeInv, AnsweredOnce
  <1> QED BY <1>1, SpecLibraryInv, PTL

\* What each step of the scan, of a callback walk, of a datagram and of the server does, with
\* the invariant before it.
LEMMA StepJoins ==
  ASSUME LibraryInv, [Next]_vars
  PROVE  [Scan!Pick /\ ~givenUp =>
            LET Usable == {i \in 1..count :
                    \E k \in 1..Len(list) :
                        /\ list[k].ssid = scanResult[i].ssid
                        /\ \A j \in 1..(k - 1) : list[j].ssid # list[k].ssid
                        /\ scanResult[i].open \/ list[k].pass}
            IN  IF Usable = {} THEN chosen' = {}
                ELSE \E b \in Usable : /\ chosen' = {scanResult[b]}
                                       /\ \A i \in Usable :
                                              scanResult[i].rssi <= scanResult[b].rssi]_scanVars
  <1> QED BY ScanActs DEF LibraryInv

LEMMA StepHears ==
  ASSUME LibraryInv, [Next]_vars
  PROVE  [Callbacks!Turn /\ walk'.i = 0 /\ ~shifted => due \subseteq heard]_callbackVars
  <1> QED BY CallbackHears DEF LibraryInv

LEMMA StepSends ==
  ASSUME LibraryInv, [Next]_vars
  PROVE  [outgoing' # outgoing /\ ~torn' => outgoing' = packet']_udpVars
  <1>1. CASE Udp!Next BY <1>1, UdpSends DEF LibraryInv
  <1> QED BY <1>1, LibrarySteps

LEMMA StepServes ==
  ASSUME LibraryInv, [Next]_vars
  PROVE  /\ [\A i \in DOMAIN answers' :
                answers' # answers /\ answers'[i].code = 304 =>
                   \/ copy[asking'.url].content = served[asking'.file]
                   \/ Serve!Dated(Serve!Attached(asking'.to, "GET"), copy[asking'.url])]_serveVars
         /\ [<<asking', answers'>> # <<asking, answers>> /\ "to" \in DOMAIN asking' =>
                (answers'[1].code = 500 =>
                   \A i \in DOMAIN handlers : ~Serve!Reaches(handlers[i], asking'.to))]_serveVars
  <1>1. CASE Serve!Next BY <1>1, ServeActs DEF LibraryInv
  <1> QED BY <1>1, LibrarySteps

\* run() joins the strongest usable network, an event reaches everyone registered for it, and
\* a datagram leaves as it was written, for every survey, list of access points, number of
\* callbacks, event and size of the buffer, but in the cases the modules name.
THEOREM SpecActsRightly == Spec => ActsRightly
  <1>1. Spec => Scan!JoinsTheStrongest
    BY StepJoins, SpecLibraryInv, PTL DEF Spec, Scan!JoinsTheStrongest, scanVars, Scan!scanVars
  <1>2. Spec => Callbacks!EveryoneHears
    BY StepHears, SpecLibraryInv, PTL DEF Spec, Callbacks!EveryoneHears, callbackVars, Callbacks!callbackVars
  <1>3. Spec => Udp!PacketsLeaveWhole
    BY StepSends, SpecLibraryInv, PTL DEF Spec, Udp!PacketsLeaveWhole, udpVars, Udp!udpVars
  <1> QED BY <1>1, <1>2, <1>3 DEF ActsRightly

\* "Not modified" is only said of what the browser has, and a file that is there is found by
\* the first handler that reaches it, for all handlers, rewrites, urls, files and contents of
\* different sizes.
THEOREM SpecFilesAreServed == Spec => FilesAreServed
  <1>1. Spec => Serve!NotModifiedIsTrue
    BY StepServes, SpecLibraryInv, PTL DEF Spec, Serve!NotModifiedIsTrue, serveVars, Serve!serveVars
  <1>2. Spec => Serve!FilesAreFound
    BY StepServes, SpecLibraryInv, PTL DEF Spec, Serve!FilesAreFound, serveVars, Serve!serveVars
  <1> QED BY <1>1, <1>2 DEF FilesAreServed
=============================================================================
