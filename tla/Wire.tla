-------------------------------- MODULE Wire --------------------------------
(***************************************************************************)
(* The bytes of the messages (base.proto) and what a reader makes of them, *)
(* the bytes of another message than the one it expects included: whoever  *)
(* calls parses the body of a reply as the type it waits for, and the body *)
(* of a failed reply is an Error.                                          *)
(*                                                                         *)
(* The one codec in the repository is front/models/base.ts, which          *)
(* protobuf-ts generated: reader "ts".  The services parse with the code   *)
(* protoc generates for C# from the same fields when they are built:       *)
(* reader "cs", external.  "ts" chooses the field by its number alone and  *)
(* bounds what it reads by the whole buffer, "cs" chooses it by number and *)
(* wire type and bounds it by the enclosing message.                       *)
(*                                                                         *)
(* Strings are sequences of bytes.  Numbers, lengths and tags are below    *)
(* 128, one byte each, and a double is its eight bytes.                    *)
(***************************************************************************)
EXTENDS Integers, Sequences, SequencesExt

CONSTANT Inputs \* what is read: [reader, as, of, parts], the encodings of the
                \* messages `parts` of type `of`, one behind the other

VARIABLES
    input,   \* what is read
    buf,     \* its bytes
    pos,     \* IBinaryReader.pos
    frames,  \* the calls of internalBinaryRead, the innermost last
    outcome  \* "reading", "done" or "threw"

vars == <<input, buf, pos, frames, outcome>>
-----------------------------------------------------------------------------
(* The messages: their fields, in the order in which they are written.  The*)
(* kind "bytes" is that of strings as well.                                *)

Varint(no) == [no |-> no, kind |-> "varint", of |-> ""]
Double(no) == [no |-> no, kind |-> "double", of |-> ""]
Bytes(no) == [no |-> no, kind |-> "bytes", of |-> ""]
Message(no, type) == [no |-> no, kind |-> "message", of |-> type]
Repeated(no, type) == [no |-> no, kind |-> "repeated", of |-> type]

AmqpMessage == <<Varint(1), Bytes(2), Bytes(3)>>
CommonValue == <<Bytes(1)>>

\* Mutant: the type of the exception behind its message.
ErrorMessageFirst == <<Bytes(2), Bytes(1), Bytes(3)>>

\* type, message, stacktrace
Error == <<Bytes(1), Bytes(2), Bytes(3)>>
MessageContext == <<Bytes(1), Bytes(2)>>
CredentialsForm == <<Bytes(1), Bytes(2)>>
LogInfoList == <<Repeated(1, "LogInfo")>>
LogInfo == <<Bytes(1), Bytes(2), Bytes(3), Bytes(4), Double(5), Double(7),
             Message(6, "Timestamp")>>
AdminConfigChange == <<Bytes(1), Bytes(2), Bytes(3), Bytes(4)>>
Notification == <<Bytes(1), Bytes(2), Bytes(3), Bytes(4)>>
NotificationData == <<Bytes(1), Bytes(2)>>
MeerkatData == <<Bytes(1), Bytes(2), Bytes(3), Message(4, "Timestamp")>>
AdminInfo == <<Bytes(1), Bytes(2), Bytes(3), Bytes(4)>>
MeerkatInfo == <<Bytes(1), Bytes(2), Bytes(3), Message(4, "AdminInfo")>>
MeerkatInfoList == <<Repeated(1, "MeerkatInfo")>>
AdminClient == <<Bytes(1), Bytes(2), Bytes(3)>>
AdminClientList == <<Repeated(1, "AdminClient")>>
MeerkatLog == <<Bytes(1), Double(2), Double(3), Bytes(4), Message(5, "Timestamp"),
                Bytes(6)>>
MeerkatLogList == <<Repeated(1, "MeerkatLog")>>

\* google.protobuf
Timestamp == <<Varint(1), Varint(2)>>
BoolValue == <<Varint(1)>>

Fields ==
    [AmqpMessage |-> AmqpMessage, CommonValue |-> CommonValue, Error |-> Error,
     MessageContext |-> MessageContext, CredentialsForm |-> CredentialsForm,
     LogInfoList |-> LogInfoList, LogInfo |-> LogInfo,
     AdminConfigChange |-> AdminConfigChange, Notification |-> Notification,
     NotificationData |-> NotificationData, MeerkatData |-> MeerkatData,
     AdminInfo |-> AdminInfo, MeerkatInfo |-> MeerkatInfo,
     MeerkatInfoList |-> MeerkatInfoList, AdminClient |-> AdminClient,
     AdminClientList |-> AdminClientList, MeerkatLog |-> MeerkatLog,
     MeerkatLogList |-> MeerkatLogList, Timestamp |-> Timestamp,
     BoolValue |-> BoolValue]

Types == DOMAIN Fields
Lists == {"LogInfoList", "MeerkatInfoList", "AdminClientList", "MeerkatLogList"}

\* The type in the Error of a refused request, and of one whose method threw:
\* a method that returns a Task and one that does not, called by reflection.
Auth == <<65, 117, 116, 104>>
AggregateException ==
    <<65, 103, 103, 114, 101, 103, 97, 116, 101, 69, 120, 99, 101, 112, 116, 105, 111, 110>>
TargetInvocationException ==
    <<84, 97, 114, 103, 101, 116, 73, 110, 118, 111, 99, 97, 116, 105, 111, 110,
      69, 120, 99, 101, 112, 116, 105, 111, 110>>
FailureTypes == {Auth, AggregateException, TargetInvocationException}

\* An absent message is <<>>, a present one <<m>>; a message has a value for
\* each of its fields.
DefaultOf(kind) == CASE kind = "varint" -> 0
                     [] kind = "double" -> [i \in 1..8 |-> 0]
                     [] OTHER -> <<>>

Default(type) == [i \in DOMAIN Fields[type] |-> DefaultOf(Fields[type][i].kind)]
-----------------------------------------------------------------------------
(* Writing. *)

WireTypeOf(kind) == CASE kind = "varint" -> 0
                      [] kind = "double" -> 1
                      [] OTHER -> 2

Tag(f) == <<8 * f.no + WireTypeOf(f.kind)>>
LengthDelimited(bytes) == <<Len(bytes)>> \o bytes

\* internalBinaryWrite: defaults are left out, nested messages are not.
RECURSIVE Encode(_, _)
Encode(type, m) ==
    FlattenSeq([i \in DOMAIN m |->
        LET f == Fields[type][i]
        IN CASE f.kind \in {"message", "repeated"} ->
                    FlattenSeq([j \in DOMAIN m[i] |->
                        Tag(f) \o LengthDelimited(Encode(f.of, m[i][j]))])
             [] m[i] = DefaultOf(f.kind) -> <<>>
             [] f.kind = "varint" -> Tag(f) \o <<m[i]>>
             [] f.kind = "double" -> Tag(f) \o m[i]
             [] f.kind = "bytes" -> Tag(f) \o LengthDelimited(m[i])])
-----------------------------------------------------------------------------
(* Reading.  A step is a round of the loop of internalBinaryRead. *)

Top == Last(frames)
Frame(type, end, m, slot) == [type |-> type, end |-> end, message |-> m, slot |-> slot]

TypeOK ==
    /\ buf \in Seq(0..127)
    /\ pos \in 0..Len(buf)
    /\ \A i \in DOMAIN frames :
          /\ frames[i].type \in Types
          /\ DOMAIN frames[i].message = DOMAIN Fields[frames[i].type]
          /\ frames[i].end \in 0..(Len(buf) + 127)
          /\ i > 1 => frames[i].slot \in DOMAIN frames[i - 1].message
    /\ outcome \in {"reading", "done", "threw"}

Init ==
    /\ input \in Inputs
    /\ buf = FlattenSeq([i \in DOMAIN input.parts |-> Encode(input.of, input.parts[i])])
    /\ pos = 0
    /\ frames = <<Frame(input.as, Len(buf), Default(input.as), 0)>>
    /\ outcome = "reading"

\* The next tag, in the loop's body.
InLoop == outcome = "reading" /\ pos < Top.end
TagRead == buf[pos + 1]

\* Mutant: fields are chosen by their number whatever their wire type is.
KnownByNumber == {i \in DOMAIN Fields[Top.type] : Fields[Top.type][i].no = TagRead \div 8}

\* The case of the switch, if any.
Known ==
    {i \in DOMAIN Fields[Top.type] :
        LET f == Fields[Top.type][i]
        IN IF input.reader = "cs" THEN Tag(f) = <<TagRead>> ELSE f.no = TagRead \div 8}

\* How far a field may reach.
Limit == IF input.reader = "cs" THEN Top.end ELSE Len(buf)

\* Where the field of this tag ends whose content starts behind p; beyond the
\* buffer when it does not end in it or cannot be skipped.
RECURSIVE SkipEnd(_, _)
SkipEnd(tag, p) ==
    CASE tag < 8 -> Len(buf) + 1
      [] tag % 8 = 0 -> p + 1
      [] tag % 8 = 1 -> p + 8
      [] tag % 8 = 5 -> p + 4
      [] tag % 8 = 2 /\ p < Len(buf) -> p + 1 + buf[p + 1]
      [] tag % 8 = 3 /\ p < Len(buf) ->
            IF buf[p + 1] % 8 # 4 THEN SkipEnd(tag, SkipEnd(buf[p + 1], p + 1))
            ELSE IF input.reader = "ts" \/ buf[p + 1] = tag + 1 THEN p + 1
            ELSE Len(buf) + 1
      [] OTHER -> Len(buf) + 1

\* An exception of the reader ends all its calls.
Throw == outcome' = "threw" /\ UNCHANGED <<input, buf, pos, frames>>

\* The bytes from pos + skip on up to end.
Content(skip, end) == SubSeq(buf, pos + skip, end)

\* reader.int32(), double(), string()
ReadScalar ==
    /\ InLoop
    /\ \E i \in Known :
          LET f == Fields[Top.type][i]
              end == SkipEnd(Tag(f)[1], pos + 1)
              value == CASE f.kind = "varint" -> buf[end]
                         [] f.kind = "double" -> Content(2, end)
                         [] f.kind = "bytes" -> Content(3, end)
          IN /\ f.kind \in {"varint", "double", "bytes"}
             /\ \/ end > Limit /\ Throw
                \/ /\ end <= Limit
                   /\ pos' = end
                   /\ frames' = [frames EXCEPT ![Len(frames)].message[i] = value]
                   /\ UNCHANGED <<input, buf, outcome>>

\* A nested internalBinaryRead of field i, into the message target.
ReadInto(i, target) ==
    LET f == Fields[Top.type][i]
        end == SkipEnd(Tag(f)[1], pos + 1)
    IN /\ f.kind \in {"message", "repeated"}
       /\ \/ end > Limit /\ Throw
          \/ /\ end <= Limit
             /\ pos' = pos + 2
             /\ frames' = Append(frames, Frame(f.of, end, target, i))
             /\ UNCHANGED <<input, buf, outcome>>

\* Mutant: a nested message is always read into a new one.
ReadFreshMessage == InLoop /\ \E i \in Known : ReadInto(i, Default(Fields[Top.type][i].of))

\* The message of the field that is there already is read on, an element of a
\* list is a new one.
ReadMessage ==
    /\ InLoop
    /\ \E i \in Known :
          LET f == Fields[Top.type][i]
              old == Top.message[i]
          IN ReadInto(i, IF f.kind = "message" /\ old # <<>> THEN old[1] ELSE Default(f.of))

\* Mutant: skip does not look whether the field ends within the buffer.
SkipUnbounded ==
    /\ InLoop /\ Known = {}
    /\ pos' = SkipEnd(TagRead, pos + 1)
    /\ UNCHANGED <<input, buf, frames, outcome>>

\* The default of the switch: the unknown field is kept apart.
Skip ==
    /\ InLoop /\ Known = {}
    /\ LET end == SkipEnd(TagRead, pos + 1)
       IN \/ end > Limit /\ Throw
          \/ /\ end <= Limit
             /\ pos' = end
             /\ UNCHANGED <<input, buf, frames, outcome>>

\* The loop ends, and with it the call.
Return ==
    /\ outcome = "reading" /\ pos >= Top.end
    /\ \/ /\ Len(frames) = 1
          /\ outcome' = "done" /\ UNCHANGED frames
       \/ /\ Len(frames) > 1
          /\ LET caller == frames[Len(frames) - 1]
                 i == Top.slot
                 before == IF Fields[caller.type][i].kind = "repeated"
                           THEN caller.message[i] ELSE <<>>
             IN frames' = [Front(frames) EXCEPT
                             ![Len(frames) - 1].message[i] = Append(before, Top.message)]
          /\ UNCHANGED outcome
    /\ UNCHANGED <<input, buf, pos>>

Next == ReadScalar \/ ReadMessage \/ Skip \/ Return

Spec == Init /\ [][Next]_vars
-----------------------------------------------------------------------------
(* What a reader has to make of its input. *)

Result == frames[1].message

\* What a message is when the one is read behind the other.
RECURSIVE Merged(_, _, _)
Merged(type, m, n) ==
    [i \in DOMAIN m |->
        LET f == Fields[type][i]
        IN CASE f.kind = "repeated" -> m[i] \o n[i]
             [] f.kind = "message" /\ m[i] # <<>> /\ n[i] # <<>> ->
                    <<Merged(f.of, m[i][1], n[i][1])>>
             [] n[i] # DefaultOf(f.kind) -> n[i]
             [] OTHER -> m[i]]

\* What was written is read back, by either codec: the fields whatever their
\* order in the class is, the elements of a list in theirs, and messages one
\* behind the other as the merge of them.
RoundTrip ==
    input.as = input.of =>
        /\ outcome # "threw"
        /\ outcome = "done" =>
              Result = FoldLeft(LAMBDA m, n : Merged(input.of, m, n),
                                Default(input.of), input.parts)

\* The reply of a request that failed, and it is parsed as what the caller
\* waits for.
FailureAs(types) ==
    /\ input.reader = "cs" /\ input.as \in types
    /\ input.of = "Error" /\ input.parts[1][1] \in FailureTypes

\* The gateway parses the reply of a list without looking at its result
\* (PresenterController.cs:30): the body of a failed reply never passes for a
\* list, not even an empty one.
ErrorIsNoList == FailureAs(Lists) => outcome # "done"

\* AuthorizationRef.Verify parses the body of a failed verification as a
\* BoolValue (AuthorizationRef.cs:22): it is read without an exception, and as
\* no.
ErrorReadsFalse ==
    FailureAs({"BoolValue"}) => /\ outcome # "threw"
                                /\ outcome = "done" => Result = <<0>>
=============================================================================
