----------------------------- MODULE HttpUpdate ------------------------------
(***************************************************************************)
(* HTTPUpdate: one request for an image, the checks of the answer, and the *)
(* calls of Update that store it.  Update is what Updater models; here it  *)
(* is running or not, with the sectors it has written.  A restart follows  *)
(* an update of the sketch.                                                *)
(***************************************************************************)
EXTENDS Integers

CONSTANTS Room      \* bytes free for an image

VARIABLES
  call,       \* handleUpdate() in progress, and the size of the image
  http,       \* the connection is open
  update,     \* Update: running, and the bytes written
  installed,  \* the image whose end() succeeded last: its size, 0 for none
  result,     \* what the last call returned
  lastError,  \* _lastError: 0, "http", "answer" or "update"
  unended,    \* why a call left Update running since the last restart: "digest", "memory"
  crashed     \* the null pointer of getStreamPtr() has been used

updateVars == <<call, http, update, installed, result, lastError, unended, crashed>>

Idle == [pc |-> "idle", spiffs |-> FALSE, len |-> 0]
NotRunning == [running |-> FALSE, got |-> 0]
Init ==
  /\ call = Idle /\ http = FALSE /\ update = NotRunning /\ installed = 0
  /\ result = "none" /\ lastError = "0" /\ unended = {} /\ crashed = FALSE

At(pc) == call.pc = pc /\ ~crashed
Goto(pc) == call' = [call EXCEPT !.pc = pc]
\* Two of the early returns do not call http.end().
ReturnOpen(ret, error) == call' = Idle /\ result' = ret /\ lastError' = error
ReturnEnded(ret, error) == ReturnOpen(ret, error) /\ http' = FALSE

Call(spiffs) ==
  /\ At("idle") /\ call' = [pc |-> "get", spiffs |-> spiffs, len |-> 0] /\ result' = "none" /\ installed' = 0
  /\ UNCHANGED <<http, update, lastError, unended, crashed>>

\* Bodies come with a size of -1 when the server does not say it.
Get ==
  /\ At("get")
  /\ \/ \E open \in BOOLEAN, len \in -1..(Room + 1) :
          /\ http' = open
          /\ IF len > 0 THEN call' = [call EXCEPT !.pc = "room", !.len = len] /\ UNCHANGED <<result, lastError>>
             ELSE ReturnEnded("failed", "answer")
     \/ ReturnEnded("no updates", lastError)
     \/ \E error \in {"http", "answer"} : ReturnEnded("failed", error)
  /\ UNCHANGED <<update, installed, unended, crashed>>
FindRoom ==
  /\ At("room")
  /\ \/ ReturnOpen("failed", "answer") /\ UNCHANGED http   \* no partition
     \/ /\ IF call.len > Room THEN ReturnEnded("failed", "answer")
           ELSE Goto(IF call.spiffs THEN "begin" ELSE "header") /\ UNCHANGED <<http, result, lastError>>
  /\ UNCHANGED <<update, installed, unended, crashed>>
\* The connection is gone, with nothing left of it, or not.
Stream == crashed' = (~http)
CheckHeader ==
  /\ At("header") /\ Stream
  /\ \/ ReturnEnded("failed", "answer")
     \/ Goto("begin") /\ UNCHANGED <<http, result, lastError>>
  /\ UNCHANGED <<update, installed, unended>>
\* begin() fails with no error set on a running update and without memory for a sector.
Begin ==
  /\ At("begin")
  /\ IF update.running THEN ReturnEnded("failed", "0") /\ UNCHANGED update
     ELSE \/ (\E error \in {"0", "update"} : ReturnEnded("failed", error)) /\ UNCHANGED update
          \/ update' = [running |-> TRUE, got |-> 0] /\ Goto("md5") /\ UNCHANGED <<http, result, lastError>>
  /\ UNCHANGED <<installed, unended, crashed>>
\* The update goes on running when the server's digest is not one.
SetMd5 ==
  /\ At("md5")
  /\ \/ Goto("stream") /\ UNCHANGED <<http, result, lastError, unended>>
     \/ ReturnEnded("failed", "answer") /\ unended' = unended \cup {"digest"}
  /\ UNCHANGED <<update, installed, crashed>>
\* writeStream() looks at the first byte again; a sketch that has not the magic is aborted.
VerifyHeader ==
  /\ At("stream") /\ Stream
  /\ \/ ~call.spiffs /\ ReturnEnded("failed", "update") /\ update' = NotRunning
     \/ Goto("write") /\ UNCHANGED <<http, update, result, lastError>>
  /\ UNCHANGED <<installed, unended>>

\* A sector more, as long as the stream gives one.
WriteSector ==
  /\ update' = [update EXCEPT !.got = @ + 1] /\ http' \in {http, FALSE}
  /\ UNCHANGED <<call, result, lastError, unended>>
\* The first sector of a sketch needs memory for the bytes it holds back; without it
\* writeStream() returns, and nothing ends the update or sets an error.
NoMemory ==
  /\ ~call.spiffs /\ update.got = 0 /\ ReturnEnded("failed", "0")
  /\ unended' = unended \cup {"memory"} /\ UNCHANGED update
\* mutant: an error of the flash leaves the update running
WriteStreamKeeps ==
  /\ At("write")
  /\ IF update.got = call.len THEN Goto("end") /\ UNCHANGED <<http, update, result, lastError, unended>>
     ELSE \/ WriteSector \/ NoMemory
          \/ ReturnEnded("failed", "update") /\ UNCHANGED <<update, unended>>
  /\ UNCHANGED <<installed, crashed>>

\* writeStream() aborts the update on an error of the flash and when the stream ends.
WriteStream ==
  /\ At("write")
  /\ IF update.got = call.len THEN Goto("end") /\ UNCHANGED <<http, update, result, lastError, unended>>
     ELSE \/ WriteSector \/ NoMemory
          \/ ReturnEnded("failed", "update") /\ update' = NotRunning /\ UNCHANGED unended
  /\ UNCHANGED <<installed, crashed>>
End ==
  /\ At("end") /\ update' = NotRunning
  /\ \/ ReturnEnded("failed", "update") /\ UNCHANGED installed
     \/ ReturnEnded("ok", lastError) /\ installed' = update.got
  /\ UNCHANGED <<unended, crashed>>
\* The restart after an update of the sketch, or one after a crash.
Restart ==
  /\ crashed \/ (result = "ok" /\ call.pc = "idle") \/ unended # {}
  /\ call' = Idle /\ http' = FALSE /\ update' = NotRunning /\ installed' = 0 /\ result' = "none"
  /\ lastError' = "0" /\ unended' = {} /\ crashed' = FALSE

Steps == Get \/ FindRoom \/ CheckHeader \/ Begin \/ SetMd5 \/ VerifyHeader \/ WriteStream \/ End
Next == (\E spiffs \in BOOLEAN : Call(spiffs)) \/ Steps \/ Restart
Spec == Init /\ [][Next]_updateVars
-----------------------------------------------------------------------------
\* Every variable keeps its kind of value, and no more is written than the image has.
TypeOK ==
  /\ {http, crashed, update.running} \subseteq BOOLEAN /\ unended \subseteq {"digest", "memory"}
  /\ update.got \in 0..call.len \cup 0..Room
  /\ lastError \in {"0", "http", "answer", "update"}

\* HTTP_UPDATE_OK means that the whole image was installed and the connection ended,
\* and every call that failed installed nothing.
OkMeansInstalled == call.pc = "idle" => (result = "ok" <=> installed # 0) /\ (result = "ok" => ~http)

\* A call leaves Update free for the next one, unless a digest of the server's was
\* refused or writeStream() had no memory since the last restart: nobody ends that update.
UpdaterIsFree == call.pc = "idle" => (update.running => unended # {})
=============================================================================
