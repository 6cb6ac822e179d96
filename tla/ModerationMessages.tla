------------------------- MODULE ModerationMessages -------------------------
(***************************************************************************)
(* The data of the moderation service: what a gRPC caller asks, what       *)
(* travels on the Kafka request topic, what is answered on the result      *)
(* topic, what is written to the table moderation_records, and the pure    *)
(* decisions the code takes on them.                                       *)
(*                                                                         *)
(* Texts are opaque: the text pipeline is represented by the set           *)
(* FlaggedTexts of the texts it flags.  A message key is an object id,     *)
(* absent (None), or bytes the consumer refuses to read as a number        *)
(* (BadKey).                                                               *)
(***************************************************************************)
EXTENDS Integers

CONSTANTS
  Ids,          \* object ids a request or a key may carry (int64 in the code)
  Texts,        \* texts to moderate
  EmptyText,    \* the empty string
  FlaggedTexts, \* the texts TextProcessor::TextProcessing flags
  None,         \* nothing: no key, no call, a free place in a queue
  BadKey        \* a key the consumer cannot read as an object id

ASSUME MessagesAssumption ==
  /\ Ids \subseteq Int
  /\ 0 \in Ids
  /\ EmptyText \in Texts
  /\ FlaggedTexts \subseteq Texts \ {EmptyText}
  /\ None \notin Ids
  /\ BadKey \notin Ids
  /\ BadKey # None

Unspecified == "OBJECT_TYPE_UNSPECIFIED"

ObjectTypes ==
  {Unspecified, "OBJECT_TYPE_COMMENT_TEXT",
   "OBJECT_TYPE_MOD_DESCRIPTION", "OBJECT_TYPE_USER_NAME"}

\* A proto3 enumeration is open: a number outside the enumeration survives
\* parsing.  "unknown" stands for all of them.
WireTypes == ObjectTypes \cup {"unknown"}

\* moderation::ModerateObjectRequest as the gRPC caller fills it in.
Request == [id : Ids, text : Texts, type : WireTypes]

\* A message of the request topic: its key and its payload.  A payload that is
\* not a serialized ModerateObjectRequest has parses = FALSE.
Message == [key : Ids \cup {None, BadKey}, parses : BOOLEAN,
            text : Texts, type : WireTypes]

\* A message of the result topic: its key and ModerateObjectResponse.success.
Answer == [key : Ids, success : BOOLEAN]

\* A row of moderation_records (reason and timestamp left out).
Row == [object_id : Ids, object_type : WireTypes, text : Texts,
        is_flagged : BOOLEAN]

(***************************************************************************)
(* The service's side: which requests it forwards, and as what.            *)
(***************************************************************************)

\* The check the handler and the service both make.
ValidRequest(r) == r.text # EmptyText /\ r.id # 0

\* What the service publishes for a request: id and text are copied, the type
\* is not, so the payload carries the enumeration's default; the key is the id.
KafkaRequest(r) ==
  [key |-> r.id, parses |-> TRUE, text |-> r.text, type |-> Unspecified]

(***************************************************************************)
(* The consumer's side: which messages it moderates, and with what result. *)
(***************************************************************************)

\* A message without a key is moderated under object id 0.
RequestId(m) == IF m.key = None THEN 0 ELSE m.key

KeyAccepted(m) == m.key # BadKey

TypeAccepted(m) == m.type \in ObjectTypes \ {Unspecified}

\* The message passes every early return of KafkaConsumer::ProcessMessage.
Acceptable(m) == KeyAccepted(m) /\ m.parses /\ TypeAccepted(m)

IsFlagged(m) == m.text \in FlaggedTexts

\* "success" says that the text was flagged.
Response(m) == [key |-> RequestId(m), success |-> IsFlagged(m)]

ModerationRecord(m) ==
  [object_id |-> RequestId(m), object_type |-> m.type, text |-> m.text,
   is_flagged |-> IsFlagged(m)]
=============================================================================
