--------------------------- MODULE ProcessMessage ---------------------------
(***************************************************************************)
(* One call of KafkaConsumer::ProcessMessage, from the bytes of the key to *)
(* the answer and the record: the composition of MessageKey, which reads   *)
(* the key and writes the answer's, and TextPipeline, which decides about  *)
(* the text.  ModerationMessages, on which ModerationFlow is built, takes  *)
(* the same call in one step over identifiers and the set of flagged texts;*)
(* AnswersAsPromised says that this is what the call does.                 *)
(***************************************************************************)
EXTENDS TextPipeline, MessageKey

CONSTANTS
  Incoming,      \* the messages of the request topic
  None, BadKey   \* ModerationMessages' names of an absent and a refused key

Enumeration ==
  {"OBJECT_TYPE_UNSPECIFIED", "OBJECT_TYPE_COMMENT_TEXT",
   "OBJECT_TYPE_MOD_DESCRIPTION", "OBJECT_TYPE_USER_NAME"}
WireTypes == Enumeration \cup {"unknown"}

ASSUME MessageAssumption ==
  /\ Incoming \subseteq [key : Seq(KeyChars), parses : BOOLEAN, text : Texts,
                         type : WireTypes]
  /\ {None, BadKey} \cap Ids = {} /\ None # BadKey

VARIABLES
  at,          \* the statement of ProcessMessage
  message,     \* its argument
  request_id,
  answer,      \* what SendResponseAsync took, or None
  row          \* what the callback was given, or None

callVars == <<at, message, request_id, answer, row>>
allVars == <<vars, callVars>>

Statements == {"key", "payload", "type", "text", "respond", "callback", "done", "dropped"}

CallTypeOK ==
  /\ TypeOK
  /\ at \in Statements
  /\ message.text = input
  /\ request_id \in Ids
  /\ answer # None => answer.key \in Seq(KeyChars) /\ answer.success \in BOOLEAN
  /\ row # None => row.object_id \in Ids /\ row.object_type \in WireTypes

CallInit ==
  /\ message \in Incoming
  /\ input = message.text /\ Init
  /\ at = "key"
  /\ request_id = 0
  /\ answer = None /\ row = None

\* One of the early returns; the message is not looked at again.
Return == at' = "dropped" /\ UNCHANGED <<message, request_id, answer, row>>
GoOn(next) == at' = next /\ UNCHANGED <<message, request_id, answer, row>>

-----------------------------------------------------------------------------
ReadKey ==
  /\ at = "key"
  /\ Readable(message.key)
  /\ at' = "payload"
  /\ request_id' = ObjectOf(message.key)
  /\ UNCHANGED <<vars, message, answer, row>>

\* "message key is not numeric", or stoll throws.
RefuseKey ==
  /\ at = "key"
  /\ ~Readable(message.key)
  /\ Return
  /\ UNCHANGED vars

ParsePayload ==
  /\ at = "payload"
  /\ IF message.parses THEN GoOn("type") ELSE Return
  /\ UNCHANGED vars

\* ObjectType_IsValid, and not the default.
Moderated(type) == type \in Enumeration \ {"OBJECT_TYPE_UNSPECIFIED"}

CheckType ==
  /\ at = "type"
  /\ IF Moderated(message.type) THEN GoOn("text") ELSE Return
  /\ UNCHANGED vars

\* TextProcessing runs to its end while the caller waits.
TextStep ==
  /\ at = "text"
  /\ Forward
  /\ UNCHANGED callVars
TextThrows ==
  /\ at = "text"
  /\ Throws
  /\ UNCHANGED callVars

TextReturns ==
  /\ at = "text" /\ stage = "done"
  /\ IF verdict = "threw" THEN Return ELSE GoOn("respond")
  /\ UNCHANGED vars

\* Mutant: "success" is taken at its word.
Respond_Success ==
  /\ at = "respond"
  /\ at' = "callback"
  /\ answer' \in {None, [key |-> Spell(request_id), success |-> verdict = "passed"]}
  /\ UNCHANGED <<vars, message, request_id, row>>
\* producer_->SendResponseAsync; whether it takes the answer or not, the
\* callback follows.
Respond ==
  /\ at = "respond"
  /\ at' = "callback"
  /\ answer' \in {None, [key |-> Spell(request_id), success |-> verdict = "flagged"]}
  /\ UNCHANGED <<vars, message, request_id, row>>

Callback ==
  /\ at = "callback"
  /\ at' = "done"
  /\ row' = [object_id |-> request_id, object_type |-> message.type,
             text |-> message.text, is_flagged |-> verdict = "flagged"]
  /\ UNCHANGED <<vars, message, request_id, answer>>

\* Every statement that returns.
CallForward ==
  \/ ReadKey \/ RefuseKey \/ ParsePayload \/ CheckType
  \/ TextStep \/ TextReturns \/ Respond \/ Callback

CallNext == CallForward \/ TextThrows

\* The consumer thread runs on; no allocation has to fail.
CallSpec == CallInit /\ [][CallNext]_allVars /\ WF_allVars(CallForward)

-----------------------------------------------------------------------------
(***************************************************************************)
(* Properties                                                              *)
(***************************************************************************)

\* What the service publishes for object n goes out under Spell(n), and so does
\* the answer to it.  No identifier of the width is refused, the smallest one
\* included, and all are read back as themselves: the messages and the answers
\* about an object keep one key.
RoundTrip ==
  \A n \in Ids :
    message.key = Spell(n) =>
      /\ ~(at = "dropped" /\ message.parses /\ Moderated(message.type) /\ stage # "done")
      /\ at \notin {"key", "dropped"} => request_id = n
      /\ answer # None => answer.key = message.key

\* The one-step account of the message.
Taken ==
  [key |-> IF message.key = <<>> THEN None
           ELSE IF Readable(message.key) THEN ObjectOf(message.key) ELSE BadKey,
   parses |-> message.parses, text |-> message.text, type |-> message.type]

Flagged == {t \in Texts \ Unreadable : Verdict!Flagged(t)}

Promise == INSTANCE ModerationMessages WITH EmptyText <- <<>>, FlaggedTexts <- Flagged

\* "Only digits (and optional leading +/-)".
OnlyDigits(key) ==
  /\ Len(key) > Sign(key)
  /\ \A k \in (Sign(key) + 1)..Len(key) : key[k] \in Digits

\* What a key should be: the number of an object, or nothing.
Proper(key) == key = <<>> \/ (OnlyDigits(key) /\ Number(key) \in Ids)

\* A number with something else behind it.
Ragged(key) ==
  \E n \in 1..(Len(key) - 1) : Proper(SubSeq(key, 1, n)) /\ key[n + 1] \notin Digits

Stated ==
  [Taken EXCEPT !.key = IF message.key = <<>> THEN None
                        ELSE IF Proper(message.key) THEN Number(message.key) ELSE BadKey]

\* A message with a proper key, a payload and a type is dropped for no other
\* reason than that its text threw, and one without them never reaches its text:
\* no spelling of a number is refused, and no sign, letter or number beyond the
\* width passes for one.  The exception is the ragged key, which stoll reads up to
\* where the number ends.
DropsAsPromised ==
  /\ at = "dropped" /\ Promise!Acceptable(Stated) => verdict = "threw"
  /\ at \in {"text", "respond", "callback", "done"} =>
       Promise!Acceptable(Stated) \/ Ragged(message.key)
  /\ at = "done" => verdict # "threw"

\* "Validate that key_str contains only digits (and optional leading +/-)"
\* (kafkaclient.cpp:221): whatever is moderated has such a key, or none.
OnlyDigitsPass ==
  at \notin {"key", "dropped"} => message.key = <<>> \/ OnlyDigits(message.key)

\* The call does in its statements and stages what ModerationMessages says in
\* one step: the answer and the record are Response and ModerationRecord.
\* Whoever wrote the message's key, the key of the answer reads back as the
\* object that was moderated.
AnswersAsPromised ==
  at = "done" =>
    /\ row = Promise!ModerationRecord(Taken)
    /\ answer # None =>
         /\ Readable(answer.key)
         /\ ObjectOf(answer.key) = Promise!Response(Taken).key
         /\ answer.success = Promise!Response(Taken).success

\* The statements left at each, and the turns of the text's loops.
StatementsLeft ==
  [key |-> 6, payload |-> 5, type |-> 4, text |-> 3, respond |-> 2, callback |-> 1,
   done |-> 0, dropped |-> 0]

StepsLeft == StatementsLeft[at] + TurnsLeft

\* No message can hold the consumer thread: the steps a call may still take are
\* bounded from its start, by six for each character of the text after NFC and
\* toLower() and fourteen, and whatever changes uses one up at least.  No loop
\* goes back, and no stage after those two makes the text longer for the next.
CountsDown == [][StepsLeft' \in 0..(StepsLeft - 1)]_allVars

\* Every call returns, whatever the message: each turn of each loop steps on.
Returns == <>(at \in {"done", "dropped"})
=============================================================================
