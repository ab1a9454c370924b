------------------------------ MODULE Requests ------------------------------
(***************************************************************************)
(* One message from the command line and the POST that makes it to the     *)
(* store of a peer: main's checks of the identity, process_request,        *)
(* create_message, is_valid_utf8 byte by byte, message_to_json, and        *)
(* replicate_message or sync_messages with parse_message at the other end. *)
(*                                                                         *)
(* Bytes are numbers and a text is a sequence of them.  A JSON string, as  *)
(* it travels, is a sequence of characters: <<"raw", b>> a byte as it is,  *)
(* <<"esc", b>> a backslash escape, <<"u", c>> an escape by code: one, or  *)
(* the two of a surrogate pair for a code past FFFF.                       *)
(* MeshChat takes it for granted that a message parses to itself and is    *)
(* accepted everywhere; this module is where that comes from.              *)
(***************************************************************************)
EXTENDS Integers, Sequences, SequencesExt

CONSTANTS
  Identities,          \* [node_id, callsign: lengths; plain: BOOLEAN;
                       \* sequence: next_sequence_; digits: how many it has]
  Posts,               \* requests a client may send
  Foreign,             \* messages another build or program sends to a peer
  MaxName,             \* 64, the longest node id or call sign
  MaxId,               \* 160, the longest message id
  MaxInteger,          \* the largest std::int64_t
  MaxMessageBytes,     \* max_message_bytes
  MaxRequestBytes,     \* max_request_bytes
  MaxSyncRequestBytes, \* max_sync_request_bytes
  PostEnvelope,        \* bytes of a POST beside the string of its body
  MessageEnvelope      \* the same of message_to_json

Byte == 0 .. \hFF
CodePoint == {c \in Nat : c <= \h10FFFF}
\* What a JSON string is made of.
Character == ({"raw", "esc"} \X Byte) \cup ({"u"} \X CodePoint)

ASSUME RequestsAssumption ==
  /\ \A n \in {MaxName, MaxId, MaxMessageBytes, MaxRequestBytes,
               MaxSyncRequestBytes, PostEnvelope, MessageEnvelope} : n \in Nat
  /\ MaxInteger \in Nat \ {0}
  /\ \A i \in Identities : /\ {i.node_id, i.callsign} \subseteq Nat
                           /\ {i.digits, i.sequence} \subseteq Nat \ {0}
                           /\ i.plain \in BOOLEAN
\* A message id is a node id, a colon and the digits of a uint64: it fits.
ASSUME IdAssumption == \A i \in Identities : MaxName + 1 + i.digits <= MaxId
ASSUME StringsAssumption == /\ \A r \in Posts : r.body \in Seq(Character)
                            /\ \A m \in Foreign : m.body \in Seq(Character)

VARIABLES
  phase,      \* where the event loop is; see Phases
  identity,   \* of the node, with its next_sequence_
  request,    \* the POST being handled
  scan,       \* is_valid_utf8: its argument and its locals
  stored,     \* the body create_local added: no text or one
  received,   \* the body the peer ingested: no text or one
  reply,      \* status of the answer to the client, 0 before it
  peerReply   \* status of the peer's answer, 0 before it

vars == <<phase, identity, request, scan, stored, received, reply, peerReply>>

Phases == {"off", "idle", "routed", "lead", "continuation", "create", "wire",
           "peerLead", "peerContinuation", "ingest", "answered"}
NoRequest == [method |-> "", path |-> "", media |-> "", json |-> "",
              field |-> "", body |-> <<>>]
-----------------------------------------------------------------------------
(* JSON strings, as json-c writes and reads them.                          *)

\* json_tokener: what a character of a JSON string stands for.  A surrogate
\* that has no partner is replaced by U+FFFD.
Decoded(char) ==
  LET c == char[2] IN
  IF char[1] # "u" \/ c <= \h7F THEN <<c>>
  ELSE IF c <= \h7FF THEN <<\hC0 + (c \div 64), \h80 + (c % 64)>>
  ELSE IF c \in \hD800 .. \hDFFF THEN <<\hEF, \hBF, \hBD>>
  ELSE IF c <= \hFFFF
       THEN <<\hE0 + (c \div 4096), \h80 + ((c \div 64) % 64), \h80 + (c % 64)>>
  ELSE <<\hF0 + (c \div 262144), \h80 + ((c \div 4096) % 64),
         \h80 + ((c \div 64) % 64), \h80 + (c % 64)>>

\* json_get_string: the string's bytes with their length, zeros included.
GetString(string) ==
  LET bytes[n \in Nat] ==
        IF n = 0 THEN <<>> ELSE bytes[n - 1] \o Decoded(string[n])
  IN  bytes[Len(string)]

\* Mutant for PeerStoresTheBody: control characters are replaced.
EncodedReplaced(byte) == <<"raw", IF byte < \h20 THEN \h3F ELSE byte>>

\* serialize_json with JSON_C_TO_STRING_PLAIN: quote, backslash, slash and
\* five control characters are escaped by a letter, the others by code.
Encoded(byte) ==
  IF byte \in {\h22, \h2F, \h5C} \cup (\h08 .. \h0D \ {\h0B}) THEN <<"esc", byte>>
  ELSE IF byte < \h20 THEN <<"u", byte>>
  ELSE <<"raw", byte>>

\* Mutant for PeerNeverRefuses: the body as a C string, as the other fields.
BodyToJsonCString(body) ==
  LET zeros == {i \in DOMAIN body : body[i] = 0}
      end   == IF zeros = {} THEN Len(body)
               ELSE (CHOOSE i \in zeros : \A j \in zeros : i <= j) - 1
  IN [i \in 1 .. end |-> Encoded(body[i])]

\* message_to_json: the body is given with its length.
BodyToJson(body) == [i \in DOMAIN body |-> Encoded(body[i])]

\* Bytes a JSON string takes in a request.
JsonSize(string) ==
  FoldLeft(LAMBDA n, char : n + CASE char[1] = "raw" -> 1
                                  [] char[1] = "esc" -> 2
                                  [] OTHER -> IF char[2] <= \hFFFF THEN 6 ELSE 12,
           0, string)
-----------------------------------------------------------------------------
(* is_valid_utf8                                                           *)

\* Mutant for VerdictIsUnicode: C0 and C1 open two-byte sequences.
ContinuationCountLoose(first) ==
  CASE first <= \h7F -> 0
    [] first \in \hC0 .. \hDF -> 1
    [] first \in \hE0 .. \hEF -> 2
    [] first \in \hF0 .. \hF4 -> 3
    [] OTHER -> -1

\* The first byte decides how many follow; -1 where none may start so.
ContinuationCount(first) ==
  CASE first <= \h7F -> 0
    [] first \in \hC2 .. \hDF -> 1
    [] first \in \hE0 .. \hEF -> 2
    [] first \in \hF0 .. \hF4 -> 3
    [] OTHER -> -1

\* The bits of the code point that the first byte carries.
LeadBits(first, count) ==
  CASE count = 0 -> first
    [] count = 1 -> first % 32
    [] count = 2 -> first % 16
    [] OTHER -> first % 8

\* Mutant for ReadsInside: the comparison is off by one.
CutShortByOne(count) == scan.index + count > Len(scan.text)

\* index + continuation_count >= text.size(), with index from 0.
CutShort(count) == scan.index + count >= Len(scan.text)

\* What the last check of an iteration refuses: overlong forms, code points
\* past the last one, and surrogates.
BadCodePoint(count, point) ==
  \/ count = 2 /\ point < \h800
  \/ count = 3 /\ point < \h10000
  \/ point > \h10FFFF
  \/ point \in \hD800 .. \hDFFF

\* Call is_valid_utf8(bytes).
Begin(bytes) == [text |-> bytes, index |-> 0, offset |-> 0,
                 continuation_count |-> 0, code_point |-> 0]

\* Outside of it.
NoScan == Begin(<<>>)

others == <<identity, request, stored, received, reply, peerReply>>

\* One turn of the while loop up to the continuation bytes.  valid and
\* invalid are what the caller does with the verdict.
Lead(valid, invalid, reading) ==
  \/ /\ scan.index >= Len(scan.text)
     /\ valid
  \/ /\ scan.index < Len(scan.text)
     /\ LET first == scan.text[scan.index + 1]
            count == ContinuationCount(first)
        IN \/ /\ count = -1 \/ CutShort(count)
              /\ invalid
           \/ /\ count = 0
              /\ ~CutShort(count)
              /\ scan' = [scan EXCEPT !.index = @ + 1]
              /\ UNCHANGED <<phase, others>>
           \/ /\ count > 0
              /\ ~CutShort(count)
              /\ scan' = [scan EXCEPT !.offset = 1, !.continuation_count = count,
                                      !.code_point = LeadBits(first, count)]
              /\ phase' = reading
              /\ UNCHANGED others

\* One continuation byte; after the last, the check of the code point.
Continuation(invalid, leading) ==
  LET count == scan.continuation_count
      next  == scan.text[scan.index + scan.offset + 1]
      point == scan.code_point * 64 + (next % 64)
  IN \/ /\ \/ next \div 64 # 2
           \/ scan.offset = count /\ BadCodePoint(count, point)
        /\ invalid
     \/ /\ next \div 64 = 2
        /\ scan.offset < count
        /\ scan' = [scan EXCEPT !.offset = @ + 1, !.code_point = point]
        /\ UNCHANGED <<phase, others>>
     \/ /\ next \div 64 = 2
        /\ scan.offset = count
        /\ ~BadCodePoint(count, point)
        /\ scan' = [Begin(scan.text) EXCEPT !.index = scan.index + count + 1]
        /\ phase' = leading
        /\ UNCHANGED others
-----------------------------------------------------------------------------
(* The node the message is made on.                                        *)

\* main: is_valid_node_id and validate_callsign.
ValidIdentity(i) ==
  /\ i.node_id \in 1 .. MaxName
  /\ i.plain
  /\ i.callsign \in 1 .. MaxName

Init ==
  /\ phase = "off"
  /\ identity \in Identities
  /\ request = NoRequest
  /\ scan = NoScan
  /\ stored = {}
  /\ received = {}
  /\ reply = 0
  /\ peerReply = 0

\* main with other arguments, until they are accepted.
Restart ==
  /\ phase = "off"
  /\ ~ValidIdentity(identity)
  /\ identity' \in Identities
  /\ UNCHANGED <<phase, request, scan, stored, received, reply, peerReply>>

Start ==
  /\ phase = "off"
  /\ ValidIdentity(identity)
  /\ phase' = "idle"
  /\ UNCHANGED <<identity, request, scan, stored, received, reply, peerReply>>

\* process_request: the routes of the table that this module tells apart.
Routes == {<<"POST", "messages">>, <<"GET", "messages">>, <<"GET", "status">>}

RouteStatus(r) ==
  IF r.path = "" THEN 400
  ELSE IF r.path \notin {route[2] : route \in Routes} THEN 404
  ELSE IF <<r.method, r.path>> \notin Routes THEN 405
  ELSE IF r.method = "GET" THEN 200
  ELSE 0

\* handle_request and process_request: an answer, or create_message.
ProcessRequest ==
  /\ phase = "idle"
  /\ \E r \in Posts :
       /\ request' = r
       /\ reply' = RouteStatus(r)
       /\ phase' = IF reply' = 0 THEN "routed" ELSE "answered"
  /\ UNCHANGED <<identity, scan, stored, received, peerReply>>

\* has_json_content_type
HasJsonContentType(r) == r.media = "json"

\* read_request_body
TooLarge(size, limit) == size > limit

\* read_json_object for a request that need not end with its object: the
\* status it answers with, 0 when the object is read.
ReadJsonObject(r) ==
  IF ~HasJsonContentType(r) THEN 415
  ELSE IF TooLarge(PostEnvelope + JsonSize(r.body), MaxRequestBytes) THEN 413
  ELSE IF r.json # "object" THEN 400
  ELSE 0

\* Mutant for TypeOK: no limit on the decoded body.
RefusalUnlimited(r) ==
  IF ReadJsonObject(r) # 0 THEN ReadJsonObject(r)
  ELSE IF r.field # "string" \/ r.body = <<>> THEN 400
  ELSE 0

\* create_message up to is_valid_utf8: the status it answers with, 0 when the
\* text is to be validated.
Refusal(r) ==
  IF ReadJsonObject(r) # 0 THEN ReadJsonObject(r)
  ELSE IF r.field # "string" \/ GetString(r.body) = <<>> THEN 400
  ELSE IF Len(GetString(r.body)) > MaxMessageBytes THEN 413
  ELSE 0

CreateMessage ==
  /\ phase = "routed"
  /\ \/ /\ Refusal(request) # 0
        /\ reply' = Refusal(request)
        /\ phase' = "answered"
        /\ UNCHANGED scan
     \/ /\ Refusal(request) = 0
        /\ scan' = Begin(GetString(request.body))
        /\ phase' = "lead"
        /\ UNCHANGED reply
  /\ UNCHANGED <<identity, request, stored, received, peerReply>>

\* message_must_be_valid_utf8
RefuseText ==
  /\ reply' = 400
  /\ phase' = "answered"
  /\ scan' = NoScan
  /\ UNCHANGED <<identity, request, stored, received, peerReply>>

\* The validator's answer is known; create_local comes next.
AcceptText ==
  /\ phase' = "create"
  /\ UNCHANGED <<scan, others>>

CreateLead ==
  /\ phase = "lead"
  /\ Lead(AcceptText, RefuseText, "continuation")

CreateContinuation ==
  /\ phase = "continuation"
  /\ Continuation(RefuseText, "lead")

\* create_local: stored and answered 200, or 500 when the store throws, as it
\* does for a sequence that no column holds.
CreateLocal ==
  /\ phase = "create"
  /\ \/ /\ identity.sequence <= MaxInteger
        /\ stored' = {scan.text}
        /\ reply' = 200
        /\ phase' = "wire"
     \/ /\ reply' = 500
        /\ phase' = "answered"
        /\ UNCHANGED stored
  /\ scan' = NoScan
  /\ UNCHANGED <<identity, request, received, peerReply>>
-----------------------------------------------------------------------------
(* The peer.                                                               *)

Fields == {"id", "origin", "callsign", "channel", "body", "sequence",
           "created_at_ms"}
DefaultChannel == "les-manet"

\* A name is its size and the number of bytes before its first zero; one that
\* comes from the command line has no zero.
Argument(size) == [size |-> size, end |-> size]

\* json_object_new_string(name.c_str())
CStr(name) == [size |-> name.end, end |-> name.end]

\* static_cast<std::int64_t> of a std::uint64_t
Int64(n) == IF n <= MaxInteger THEN n ELSE n - 2 * (MaxInteger + 1)

\* The message create_local makes.
Created ==
  [sequence |-> identity.sequence,
   id |-> Argument(identity.node_id + 1 + identity.digits),
   origin |-> Argument(identity.node_id),
   callsign |-> Argument(identity.callsign),
   channel |-> DefaultChannel,
   body |-> CHOOSE body \in stored : TRUE]

\* message_to_json; typed holds the fields that are there with their type.
ToJson(m) ==
  [typed |-> Fields, sequence |-> Int64(m.sequence), id |-> CStr(m.id),
   origin |-> CStr(m.origin), callsign |-> CStr(m.callsign),
   channel |-> m.channel, body |-> BodyToJson(m.body)]

\* What parse_message makes of an object it accepts.
FromJson(j) ==
  [sequence |-> j.sequence, id |-> j.id, origin |-> j.origin,
   callsign |-> j.callsign, channel |-> j.channel, body |-> GetString(j.body)]

\* parse_message up to is_valid_utf8.
Parses(j) ==
  /\ j.typed = Fields
  /\ j.sequence >= 1
  /\ j.id.size \in 1 .. MaxId
  /\ j.origin.size \in 1 .. MaxName
  /\ j.callsign.size \in 1 .. MaxName
  /\ j.channel = DefaultChannel
  /\ Len(GetString(j.body)) \in 1 .. MaxMessageBytes

\* This node's message as the node sends it, and as a peer that has parsed and
\* stored it sends it on.
Message == ToJson(Created)
Relayed == ToJson(FromJson(Message))

\* What may arrive at the peer: this node's message, or something else.
Arriving == CASE phase = "wire" -> {Message, Relayed}
              [] phase = "idle" -> Foreign
              [] OTHER -> {}

\* replicate_message or sync_messages receives m; the two differ in the size
\* they take.
PeerRequest ==
  /\ \E m \in Arriving, limit \in {MaxRequestBytes, MaxSyncRequestBytes} :
       LET fits == ~TooLarge(MessageEnvelope + JsonSize(m.body), limit) IN
       \/ /\ ~fits
          /\ peerReply' = 413
          /\ phase' = "answered"
          /\ UNCHANGED scan
       \/ /\ fits
          /\ ~Parses(m)
          /\ peerReply' = 400
          /\ phase' = "answered"
          /\ UNCHANGED scan
       \/ /\ fits
          /\ Parses(m)
          /\ scan' = Begin(GetString(m.body))
          /\ phase' = "peerLead"
          /\ UNCHANGED peerReply
  /\ UNCHANGED <<identity, request, stored, received, reply>>

\* The request is lost; the next pass of the synchronization repeats it.
PeerRequestLost ==
  /\ phase = "wire"
  /\ phase' = "answered"
  /\ UNCHANGED <<identity, request, scan, stored, received, reply, peerReply>>

\* invalid_message, invalid_sync_message
RefuseMessage ==
  /\ peerReply' = 400
  /\ phase' = "answered"
  /\ scan' = NoScan
  /\ UNCHANGED <<identity, request, stored, received, reply>>

AcceptMessage ==
  /\ phase' = "ingest"
  /\ UNCHANGED <<scan, others>>

PeerLead ==
  /\ phase = "peerLead"
  /\ Lead(AcceptMessage, RefuseMessage, "peerContinuation")

PeerContinuation ==
  /\ phase = "peerContinuation"
  /\ Continuation(RefuseMessage, "peerLead")

\* ingest_replica or ingest_sync: stored, or 500 when the store throws.
Ingest ==
  /\ phase = "ingest"
  /\ \/ received' = {scan.text} /\ peerReply' = 200
     \/ peerReply' = 500 /\ UNCHANGED received
  /\ phase' = "answered"
  /\ scan' = NoScan
  /\ UNCHANGED <<identity, request, stored, reply>>

\* create_local counts on: what next_sequence_ may be at a later request.
Later(i) == {j \in Identities : /\ j.node_id = i.node_id
                                /\ j.callsign = i.callsign
                                /\ j.plain = i.plain
                                /\ j.sequence >= i.sequence}

\* Back to the event loop; the next request starts afresh.
Finish ==
  /\ phase = "answered"
  /\ phase' = "idle"
  /\ request' = NoRequest
  /\ stored' = {}
  /\ received' = {}
  /\ reply' = 0
  /\ peerReply' = 0
  /\ identity' \in Later(identity)
  /\ UNCHANGED scan

Next ==
  \/ Restart \/ Start \/ ProcessRequest \/ CreateMessage
  \/ CreateLead \/ CreateContinuation \/ CreateLocal
  \/ PeerRequest \/ PeerRequestLost
  \/ PeerLead \/ PeerContinuation \/ Ingest \/ Finish

Spec == Init /\ [][Next]_vars
-----------------------------------------------------------------------------
(* Unicode's table of well-formed UTF-8 byte sequences.                    *)

Trail == \h80 .. \hBF
WellFormedRows ==
  { <<0 .. \h7F>>,
    <<\hC2 .. \hDF, Trail>>,
    <<{\hE0}, \hA0 .. \hBF, Trail>>,
    <<\hE1 .. \hEC \cup {\hEE, \hEF}, Trail, Trail>>,
    <<{\hED}, \h80 .. \h9F, Trail>>,
    <<{\hF0}, \h90 .. \hBF, Trail, Trail>>,
    <<\hF1 .. \hF3, Trail, Trail, Trail>>,
    <<{\hF4}, \h80 .. \h8F, Trail, Trail>> }

WellFormedCharacter(bytes) ==
  \E row \in WellFormedRows : /\ Len(row) = Len(bytes)
                              /\ \A i \in DOMAIN row : bytes[i] \in row[i]

\* A text is well formed when it can be cut into well-formed characters.
WellFormed(bytes) ==
  \E cuts \in SUBSET (0 .. Len(bytes)) :
    /\ {0, Len(bytes)} \subseteq cuts
    /\ \A a \in cuts \ {Len(bytes)} : \E b \in cuts :
         /\ a < b
         /\ \A c \in cuts : ~(a < c /\ c < b)
         /\ WellFormedCharacter(SubSeq(bytes, a + 1, b))

\* The variables hold what the code's can: no body past max_message_bytes gets
\* to is_valid_utf8, and a code point never leaves the 21 bits that four bytes
\* carry, far from the width of uint32_t.
TypeOK ==
  /\ phase \in Phases
  /\ identity \in Identities
  /\ request.body \in Seq(Character)
  /\ \A i \in DOMAIN scan.text : scan.text[i] \in Byte
  /\ Len(scan.text) <= MaxMessageBytes
  /\ scan.index \in 0 .. Len(scan.text)
  /\ scan.continuation_count \in 0 .. 3
  /\ scan.offset \in 0 .. scan.continuation_count
  /\ scan.code_point \in Nat /\ scan.code_point <= \h1FFFFF
  /\ reply \in {0, 200, 400, 404, 405, 413, 415, 500}
  /\ peerReply \in {0, 200, 400, 413, 500}

\* is_valid_utf8 never reads text[index + offset] past the end of its
\* string_view: at every continuation byte it is about to read, there is one.
ReadsInside ==
  phase \in {"continuation", "peerContinuation"} =>
    scan.index + scan.offset < Len(scan.text)

\* The validator agrees with Unicode: what create_message and parse_message
\* go on with is well formed, and what is refused as bad UTF-8 is not.
VerdictIsUnicode ==
  /\ phase \in {"create", "ingest"} => WellFormed(scan.text)
  /\ phase = "answered" /\ reply = 400 /\ request.path = "messages" =>
       LET bytes == GetString(request.body) IN
       \/ request.json # "object" \/ request.field # "string" \/ bytes = <<>>
       \/ ~WellFormed(bytes)

\* A message that a node's create_local has stored is never answered 400 by a
\* peer, whether the node sends it or a peer that has it sends it on: all that
\* parse_message asks for, main, create_message, the store and message_to_json
\* have seen to.  A refused one would stop synchronization for good:
\* sync_messages breaks off at it, and the batch that the sender builds next
\* starts with it again.
PeerNeverRefuses == stored # {} => peerReply # 400

\* What the peer stores is what the node stored, byte for byte, zeros, slashes
\* and control characters included.
PeerStoresTheBody == stored # {} => received \subseteq stored
=============================================================================
