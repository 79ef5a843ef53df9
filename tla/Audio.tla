-------------------------------- MODULE Audio --------------------------------
(***************************************************************************)
(* Speech to text: an upload is stored as a file on the disk of the API    *)
(* process, a request to Whisper streams it, and the file is deleted when  *)
(* the request is over.  The service answers null whatever goes wrong; the *)
(* controller makes an error of it, except that transcribe answers         *)
(* { text: null }.  Names of files do not collide (time and a random       *)
(* number).                                                                *)
(***************************************************************************)
EXTENDS Integers, FiniteSets

CONSTANTS
  Uploads,        \* requests with an audio file
  MaxRestarts     \* bound on deaths of the process

VARIABLES
  configured,     \* does the process have an OpenAI key?
  files,          \* uploads whose file is on the disk
  upload,         \* what each request is at, and for which operation
  left,           \* history: files whose request died with the process
  restarted

avars == <<configured, files, upload, left, restarted>>

Ops == {"transcribe", "verbose", "translate"}
Phases == {"none", "stored", "streaming", "returned", "done"}
Texts == {"none", "text", "empty", "null"}
Fresh == [pc |-> "none", op |-> "transcribe", text |-> "none", answer |-> "none"]

Init ==
  /\ configured \in BOOLEAN
  /\ files = {} /\ upload = [u \in Uploads |-> Fresh] /\ left = {} /\ restarted = 0

-----------------------------------------------------------------------------
\* multer has written the file before the handler runs.  It takes the file
\* away again when the upload is too large or breaks off; other formats than
\* audio are refused before there is one (transcribe), or taken (translate).
Store(u, op) ==
  /\ upload[u].pc = "none"
  /\ files' = files \cup {u}
  /\ upload' = [upload EXCEPT ![u] = [Fresh EXCEPT !.pc = "stored", !.op = op]]
  /\ UNCHANGED <<configured, left, restarted>>

\* No file, or one refused: BadRequest, and nothing is left on the disk.
Refuse(u) ==
  /\ upload[u].pc = "none"
  /\ upload' = [upload EXCEPT ![u] = [@ EXCEPT !.pc = "done", !.answer = "400"]]
  /\ UNCHANGED <<configured, files, left, restarted>>

\* Each operation of the service: null at once without a key or a file, else
\* the request to Whisper.
Begin(u) ==
  /\ upload[u].pc = "stored"
  /\ upload' = [upload EXCEPT ![u] =
       IF configured /\ u \in files THEN [@ EXCEPT !.pc = "streaming"]
       ELSE [@ EXCEPT !.pc = "returned", !.text = "null"]]
  /\ UNCHANGED <<configured, files, left, restarted>>

Transcribe(u) == upload[u].op = "transcribe" /\ Begin(u)
TranscribeVerbose(u) == upload[u].op = "verbose" /\ Begin(u)
Translate(u) == upload[u].op = "translate" /\ Begin(u)

\* Whisper's answer, which may have no words in it, or an error, which is null.
Whisper(u) ==
  /\ upload[u].pc = "streaming"
  /\ \E text \in {"text", "empty", "null"} :
       upload' = [upload EXCEPT ![u] = [@ EXCEPT !.pc = "returned", !.text = text]]
  /\ UNCHANGED <<configured, files, left, restarted>>

\* verbose gets an object from the service, and null alone is no result.
VerboseAnswer(text) == IF text = "null" THEN "400" ELSE "201"

\* translate looks at the text itself.
TranslateAnswer(text) == IF text = "text" THEN "201" ELSE "400"

\* transcribe wraps whatever it gets in an object.
Answer(op, text) ==
  CASE op = "transcribe" -> "201"
    [] op = "verbose" -> VerboseAnswer(text)
    [] op = "translate" -> TranslateAnswer(text)

\* Mutant: the file is deleted only when there is a result to answer.
KeepOnFailure(u) == IF Answer(upload[u].op, upload[u].text) = "201" THEN files \ {u} ELSE files

\* unlinkSync comes before the result is looked at.
Unlinked(u) == files \ {u}

\* The rest of the handler; the catch clause finds no file any more.
Finish(u) ==
  /\ upload[u].pc = "returned"
  /\ files' = Unlinked(u)
  /\ upload' = [upload EXCEPT ![u].pc = "done",
                              ![u].answer = Answer(upload[u].op, upload[u].text)]
  /\ UNCHANGED <<configured, left, restarted>>

InProgress == {u \in Uploads : upload[u].pc \in {"stored", "streaming", "returned"}}

\* The process dies, with another key or none it starts again; nobody looks
\* for the files of the requests that died.
Restart ==
  /\ restarted < MaxRestarts /\ restarted' = restarted + 1
  /\ configured' \in BOOLEAN
  /\ upload' = [u \in Uploads |->
                  IF u \in InProgress THEN [upload[u] EXCEPT !.pc = "done"] ELSE upload[u]]
  /\ left' = left \cup InProgress
  /\ UNCHANGED files

Next ==
  \/ Restart
  \/ \E u \in Uploads :
       \/ \E op \in Ops : Store(u, op)
       \/ Transcribe(u) \/ TranscribeVerbose(u) \/ Translate(u)
       \/ Refuse(u) \/ Whisper(u) \/ Finish(u)

Spec == Init /\ [][Next]_avars

-----------------------------------------------------------------------------
(* Files, requests and their answers have their types. *)
TypeOK ==
  /\ configured \in BOOLEAN
  /\ files \subseteq Uploads /\ left \subseteq Uploads
  /\ upload \in [Uploads -> [pc : Phases, op : Ops, text : Texts,
                             answer : {"none", "201", "400"}]]
  /\ restarted \in 0..MaxRestarts

(* An audio file is on the disk exactly as long as its request, which streams  *)
(* it, is in progress, however the request ends; only a file whose request     *)
(* died with the process stays.                                                *)
AudioKeptWhileUsed == files = InProgress \cup left

(* "Transcription failed - AI service not configured" (llm.controller.ts:126): *)
(* a request without a text is answered with an error.  Not so: transcribe     *)
(* answers 201 with { text: null }.                                            *)
FailureIsReported ==
  \A u \in Uploads : upload[u].answer = "201" => upload[u].text # "null"

=============================================================================
