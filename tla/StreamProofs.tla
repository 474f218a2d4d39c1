---------------------------- MODULE StreamProofs ----------------------------
(***************************************************************************)
(* Theorems about Stream, for all protocol versions.                       *)
(***************************************************************************)
EXTENDS Stream, SequenceTheorems, TLAPS

-----------------------------------------------------------------------------
(***************************************************************************)
(* What is under way in each direction, by the positions of the two ends.  *)
(***************************************************************************)
\* Nothing else than the header and the request goes to the handler.
UpInv ==
  /\ opener = "new" => handler = "none"
  /\ handler = "none" => up = <<>> /\ opener \in {"new", "ended"} /\ ~reset /\ closed = {}
  /\ opener = "writeHeader" => up = <<>> /\ handler \in {"getPeer", "readHeader", "ended"}
  /\ opener \in {"readHeader", "write"} =>
       /\ up \in {<<>>, <<"header">>}
       /\ handler \in {"getPeer", "readHeader"} => up = <<"header">>
       /\ handler \in {"writeHeader", "read"} => up = <<>>
       /\ handler # "work"
  /\ handler \in {"getPeer", "readHeader"} =>
       up \in {<<>>, <<"header">>, <<"header", "data">>}
  /\ handler \in {"writeHeader", "read"} => up \in {<<>>, <<"data">>}
  /\ up \in {<<>>, <<"header">>, <<"data">>, <<"header", "data">>}

\* The header goes to the opener, then an answer, an error, or an answer whose
\* write was given up and then an error.
Answers == {<<>>, <<"data">>, <<"error">>, <<"data", "error">>}
HeaderFirst ==
  {<<"header">>, <<"header", "data">>, <<"header", "error">>, <<"header", "data", "error">>}

DownInv ==
  /\ handler \in {"none", "getPeer", "readHeader", "writeHeader"} =>
       down = <<>> /\ opener \notin {"write", "read"}
  /\ handler \in {"read", "work"} =>
       /\ opener = "readHeader" => down = <<"header">>
       /\ opener \in {"write", "read"} => down = <<>>
       /\ down \in {<<>>, <<"header">>}
  /\ handler = "writeError" =>
       /\ opener = "readHeader" => down \in {<<"header">>, <<"header", "data">>}
       /\ opener \in {"write", "read"} => down \in {<<>>, <<"data">>}
       /\ down \in {<<>>, <<"data">>, <<"header">>, <<"header", "data">>}
  /\ opener = "writeHeader" => down = <<>>
  /\ opener = "readHeader" => down \in {<<>>} \cup HeaderFirst
  /\ opener \in {"write", "read"} => down \in Answers
  /\ down \in Answers \cup HeaderFirst

\* Whether the handler has returned, and what.
VerdictInv ==
  /\ handler \in {"none", "getPeer", "readHeader", "writeHeader", "read", "work"} =>
       verdict = "none"
  /\ handler = "writeError" => verdict = "error"
  /\ handler = "close" => verdict # "none"

\* What was answered, given that something was.
Answered == verdict = "ok" \/ (verdict = "error" /\ "handler" \in done)

CarriesData ==
  {<<"data">>, <<"data", "error">>, <<"header", "data">>, <<"header", "data", "error">>}
CarriesError ==
  {<<"error">>, <<"data", "error">>, <<"header", "error">>, <<"header", "data", "error">>}

\* Data and errors, under way or read, come from what the handler returned.
AnswerInv ==
  /\ down \in CarriesData => Answered
  /\ down \in CarriesError => verdict = "error"
  /\ outcome = "data" => Answered
  /\ outcome = "error" => verdict = "error"
  /\ opener # "ended" => outcome = "none"

\* A bid's stream that nothing disturbs.
Quiet == done = {} /\ ~broken /\ protocol = "preconfirmation"

\* What the opener is to get.
Right == IF verdict = "ok" THEN "data" ELSE "error"

\* Until the handler has returned nobody gives up, and then the opener has the
\* right answer or is about to read it.
QuietInv ==
  Quiet =>
    /\ handler \in {"getPeer", "readHeader", "writeHeader", "read", "work", "writeError"} =>
         ~reset /\ closed = {} /\ opener # "ended"
    /\ handler = "work" => opener = "read" /\ down = <<>>
    /\ handler = "writeError" =>
         \/ opener = "readHeader" /\ down = <<"header">>
         \/ opener \in {"write", "read"} /\ down = <<>>
    /\ handler \in {"close", "ended"} /\ verdict # "none" =>
         \/ opener = "readHeader" /\ ~reset /\ down = <<"header", Right>>
         \/ opener \in {"write", "read"} /\ ~reset /\ down = <<Right>>
         \/ opener = "ended" /\ outcome = Right

\* The types of all but the two sequences.
PcOK ==
  /\ version \in [Ends -> Versions]
  /\ protocol \in {"preconfirmation", "discovery"}
  /\ registered \in BOOLEAN
  /\ opener \in {"new", "writeHeader", "readHeader", "write", "read", "ended"}
  /\ handler \in {"none", "getPeer", "readHeader", "writeHeader", "read", "work",
                  "writeError", "close", "ended"}
  /\ closed \subseteq Ends
  /\ reset \in BOOLEAN /\ broken \in BOOLEAN
  /\ done \subseteq Ends
  /\ verdict \in {"none", "ok", "error"}
  /\ outcome \in {"none", "sent", "data", "error", "failed"}
  /\ misread = FALSE

IInv == PcOK /\ UpInv /\ DownInv /\ VerdictInv /\ AnswerInv /\ QuietInv

-----------------------------------------------------------------------------
\* The sequences that occur: what an Append makes of them and what a Tail leaves.
LEMMA AppendTwo == ASSUME NEW m, NEW n PROVE Append(<<m>>, n) = <<m, n>>
<1> DEFINE s == Append(<<m>>, n)
           t == <<m, n>>
<1>1. s \in Seq({m, n}) /\ Len(s) = 2 /\ s[1] = m /\ s[2] = n
  <2>1. <<m>> \in Seq({m, n}) /\ Len(<<m>>) = 1
    OBVIOUS
  <2> QED
    BY <2>1
<1>2. t \in Seq({m, n}) /\ Len(t) = 2 /\ t[1] = m /\ t[2] = n
  OBVIOUS
<1>3. \A i \in 1..2 : s[i] = t[i]
  BY <1>1, <1>2
<1> HIDE DEF s, t
<1>4. s = t
  BY <1>1, <1>2, <1>3, SeqEqual
<1> QED
  BY <1>4 DEF s, t

LEMMA AppendThree == ASSUME NEW m, NEW n, NEW l PROVE Append(<<m, n>>, l) = <<m, n, l>>
<1> DEFINE s == Append(<<m, n>>, l)
           t == <<m, n, l>>
<1>1. s \in Seq({m, n, l}) /\ Len(s) = 3 /\ s[1] = m /\ s[2] = n /\ s[3] = l
  <2>1. /\ <<m, n>> \in Seq({m, n, l}) /\ Len(<<m, n>>) = 2
        /\ <<m, n>>[1] = m /\ <<m, n>>[2] = n
    OBVIOUS
  <2> QED
    BY <2>1
<1>2. t \in Seq({m, n, l}) /\ Len(t) = 3 /\ t[1] = m /\ t[2] = n /\ t[3] = l
  OBVIOUS
<1>3. \A i \in 1..3 : s[i] = t[i]
  BY <1>1, <1>2
<1> HIDE DEF s, t
<1>4. s = t
  BY <1>1, <1>2, <1>3, SeqEqual
<1> QED
  BY <1>4 DEF s, t

LEMMA Appends ==
  /\ \A m : Append(<<>>, m) = <<m>>
  /\ \A m, n : Append(<<m>>, n) = <<m, n>>
  /\ \A m, n, l : Append(<<m, n>>, l) = <<m, n, l>>
<1>1. \A m : Append(<<>>, m) = <<m>>
  OBVIOUS
<1> QED
  BY <1>1, AppendTwo, AppendThree

LEMMA Tails ==
  /\ \A m : Head(<<m>>) = m /\ Tail(<<m>>) = <<>>
  /\ \A m, n : Head(<<m, n>>) = m /\ Tail(<<m, n>>) = <<n>>
  /\ \A m, n, l : Head(<<m, n, l>>) = m /\ Tail(<<m, n, l>>) = <<n, l>>
<1>1. \A m : Head(<<m>>) = m /\ Tail(<<m>>) = <<>>
  OBVIOUS
<1>2. \A m, n : Head(<<m, n>>) = m /\ Tail(<<m, n>>) = <<n>>
  OBVIOUS
<1>3. \A m, n, l : Head(<<m, n, l>>) = m /\ Tail(<<m, n, l>>) = <<n, l>>
  OBVIOUS
<1> QED
  BY <1>1, <1>2, <1>3

\* The same, of the very sequences.
LEMMA Grow ==
  /\ Append(<<>>, "header") = <<"header">>
  /\ Append(<<>>, "data") = <<"data">>
  /\ Append(<<>>, "error") = <<"error">>
  /\ Append(<<"header">>, "data") = <<"header", "data">>
  /\ Append(<<"header">>, "error") = <<"header", "error">>
  /\ Append(<<"data">>, "error") = <<"data", "error">>
  /\ Append(<<"header", "data">>, "error") = <<"header", "data", "error">>
BY Appends

LEMMA Shrink ==
  /\ Tail(<<"header">>) = <<>> /\ Head(<<"header">>) = "header"
  /\ Tail(<<"data">>) = <<>> /\ Head(<<"data">>) = "data"
  /\ Tail(<<"error">>) = <<>> /\ Head(<<"error">>) = "error"
  /\ Tail(<<"header", "data">>) = <<"data">> /\ Head(<<"header", "data">>) = "header"
  /\ Tail(<<"header", "error">>) = <<"error">> /\ Head(<<"header", "error">>) = "header"
  /\ Tail(<<"data", "error">>) = <<"error">> /\ Head(<<"data", "error">>) = "data"
  /\ Tail(<<"header", "data", "error">>) = <<"data", "error">>
  /\ Head(<<"header", "data", "error">>) = "header"
BY Tails

\* An answer or an error that is read, or left after a read, was there before it.
LEMMA Carried ==
  ASSUME NEW d \in Answers \cup HeaderFirst, d # <<>>
  PROVE  /\ Tail(d) \in CarriesData => d \in CarriesData
         /\ Tail(d) \in CarriesError => d \in CarriesError
         /\ Head(d) = "data" => d \in CarriesData
         /\ Head(d) = "error" => d \in CarriesError
<1>1. CASE d = <<"header">>
  BY <1>1, Shrink DEF CarriesData, CarriesError
<1>2. CASE d = <<"data">>
  BY <1>2, Shrink DEF CarriesData, CarriesError
<1>3. CASE d = <<"error">>
  BY <1>3, Shrink DEF CarriesData, CarriesError
<1>4. CASE d = <<"header", "data">>
  BY <1>4, Shrink DEF CarriesData, CarriesError
<1>5. CASE d = <<"header", "error">>
  BY <1>5, Shrink DEF CarriesData, CarriesError
<1>6. CASE d = <<"data", "error">>
  BY <1>6, Shrink DEF CarriesData, CarriesError
<1>7. CASE d = <<"header", "data", "error">>
  BY <1>7, Shrink DEF CarriesData, CarriesError
<1> QED
  BY <1>1, <1>2, <1>3, <1>4, <1>5, <1>6, <1>7 DEF Answers, HeaderFirst

-----------------------------------------------------------------------------
\* A new stream has nothing under way.
LEMMA InitInv == Init => IInv
<1> SUFFICES ASSUME Init PROVE IInv
  OBVIOUS
<1>1. PcOK
  BY DEF Init, PcOK
<1>2. UpInv
  BY DEF Init, UpInv
<1>3. DownInv
  BY DEF Init, DownInv, Answers, HeaderFirst
<1>4. VerdictInv
  BY DEF Init, VerdictInv
<1>5. AnswerInv
  BY DEF Init, AnswerInv, CarriesData, CarriesError
<1>6. QuietInv
  BY DEF Init, QuietInv
<1> QED
  BY <1>1, <1>2, <1>3, <1>4, <1>5, <1>6 DEF IInv

\* One step per action of either end, one under it per part of the invariant.
LEMMA InvStep == IInv /\ [Next]_vars => IInv'
<1> SUFFICES ASSUME IInv, [Next]_vars PROVE IInv'
  OBVIOUS
<1> USE DEF IInv
<1>1. CASE UNCHANGED vars
  <2>1. PcOK'
    BY <1>1 DEF vars, given, PcOK, Ends
  <2>2. UpInv'
    BY <1>1 DEF vars, given, PcOK, UpInv, DownInv
  <2>3. DownInv'
    BY <1>1 DEF vars, given, PcOK, UpInv, DownInv, Answers, HeaderFirst
  <2>4. VerdictInv'
    BY <1>1 DEF vars, given, PcOK, VerdictInv
  <2>5. AnswerInv'
    BY <1>1 DEF vars, given, PcOK, UpInv, DownInv, VerdictInv, AnswerInv, Answered,
         CarriesData, CarriesError, Ends, Answers, HeaderFirst
  <2>6. QuietInv'
    BY <1>1 DEF vars, given, PcOK, UpInv, DownInv, VerdictInv, AnswerInv, QuietInv, Quiet,
         Right, Ends, Answers, HeaderFirst
  <2> QED
    BY <2>1, <2>2, <2>3, <2>4, <2>5, <2>6
<1>2. CASE NewStream
  <2>1. PcOK'
    BY <1>2 DEF NewStream, given, PcOK, Ends
  <2>2. UpInv'
    BY <1>2 DEF NewStream, given, PcOK, UpInv, DownInv
  <2>3. DownInv'
    BY <1>2 DEF NewStream, given, PcOK, UpInv, DownInv, Answers, HeaderFirst
  <2>4. VerdictInv'
    BY <1>2 DEF NewStream, given, PcOK, UpInv, VerdictInv
  <2>5. AnswerInv'
    BY <1>2 DEF NewStream, given, PcOK, UpInv, DownInv, VerdictInv, AnswerInv, Answered,
         CarriesData, CarriesError, Ends, Answers, HeaderFirst
  <2>6. QuietInv'
    BY <1>2 DEF NewStream, given, PcOK, UpInv, DownInv, VerdictInv, AnswerInv, QuietInv,
         Quiet, Right, Ends, Answers, HeaderFirst
  <2> QED
    BY <2>1, <2>2, <2>3, <2>4, <2>5, <2>6
<1>3. CASE WriteHeader
  <2>1. PcOK'
    BY <1>3 DEF WriteHeader, WriteMsg, given, PcOK, Ends
  <2>2. UpInv'
    BY <1>3, Grow DEF WriteHeader, WriteMsg, given, PcOK, UpInv, DownInv
  <2>3. DownInv'
    BY <1>3, Grow DEF WriteHeader, WriteMsg, given, PcOK, UpInv, DownInv, Answers,
         HeaderFirst
  <2>4. VerdictInv'
    BY <1>3 DEF WriteHeader, given, PcOK, VerdictInv
  <2>5. AnswerInv'
    BY <1>3, Grow DEF WriteHeader, WriteMsg, given, PcOK, UpInv, DownInv, VerdictInv,
         AnswerInv, Answered, CarriesData, CarriesError, Ends, Answers, HeaderFirst
  <2>6. QuietInv'
    BY <1>3, Grow DEF WriteHeader, WriteMsg, given, PcOK, UpInv, DownInv, VerdictInv,
         AnswerInv, QuietInv, Quiet, Right, Ends, Answers, HeaderFirst
  <2> QED
    BY <2>1, <2>2, <2>3, <2>4, <2>5, <2>6
<1>4. CASE ReadHeader
  <2>1. PcOK'
    BY <1>4, Shrink DEF ReadHeader, Read, Inbox, Other, given, PcOK, UpInv, DownInv, Ends,
         Answers, HeaderFirst
  <2>2. UpInv'
    BY <1>4, Shrink DEF ReadHeader, Read, Inbox, Other, given, PcOK, UpInv, DownInv
  <2>3. DownInv'
    BY <1>4, Shrink DEF ReadHeader, Read, Inbox, Other, given, PcOK, UpInv, DownInv,
         Answers, HeaderFirst
  <2>4. VerdictInv'
    BY <1>4 DEF ReadHeader, given, PcOK, VerdictInv
  <2>5. AnswerInv'
    <3>1. /\ down \in Answers \cup HeaderFirst /\ down # <<>> /\ down' = Tail(down)
          /\ UNCHANGED <<verdict, done>>
      BY <1>4 DEF ReadHeader, Read, Inbox, DownInv
    <3>2. /\ down' \in CarriesData => Answered'
          /\ down' \in CarriesError => verdict' = "error"
      BY <3>1, Carried DEF AnswerInv, Answered
    <3>3. /\ outcome' = "data" => Answered'
          /\ outcome' = "error" => verdict' = "error"
          /\ opener' # "ended" => outcome' = "none"
      BY <1>4, <3>1, Carried DEF ReadHeader, AnswerInv, Answered, PcOK
    <3> QED
      BY <3>2, <3>3 DEF AnswerInv
  <2>6. QuietInv'
    BY <1>4, Shrink DEF ReadHeader, Read, Inbox, Other, given, PcOK, UpInv, DownInv,
         VerdictInv, AnswerInv, QuietInv, Quiet, Right, Ends, Answers, HeaderFirst
  <2> QED
    BY <2>1, <2>2, <2>3, <2>4, <2>5, <2>6
<1>5. CASE WriteRequest
  <2>1. PcOK'
    BY <1>5 DEF WriteRequest, WriteMsg, given, PcOK, Ends
  <2>2. UpInv'
    BY <1>5, Grow DEF WriteRequest, WriteMsg, given, PcOK, UpInv, DownInv
  <2>3. DownInv'
    BY <1>5, Grow DEF WriteRequest, WriteMsg, given, PcOK, UpInv, DownInv, Answers,
         HeaderFirst
  <2>4. VerdictInv'
    BY <1>5 DEF WriteRequest, given, PcOK, VerdictInv
  <2>5. AnswerInv'
    BY <1>5, Grow DEF WriteRequest, WriteMsg, given, PcOK, UpInv, DownInv, VerdictInv,
         AnswerInv, Answered, CarriesData, CarriesError, Ends, Answers, HeaderFirst
  <2>6. QuietInv'
    BY <1>5, Grow DEF WriteRequest, WriteMsg, given, PcOK, UpInv, DownInv, VerdictInv,
         AnswerInv, QuietInv, Quiet, Right, Ends, Answers, HeaderFirst
  <2> QED
    BY <2>1, <2>2, <2>3, <2>4, <2>5, <2>6
<1>6. CASE ReadAnswer
  <2>1. PcOK'
    BY <1>6, Shrink DEF ReadAnswer, Read, Inbox, StreamMsg, given, PcOK, UpInv, DownInv,
         Ends, Answers, HeaderFirst
  <2>2. UpInv'
    BY <1>6, Shrink DEF ReadAnswer, Read, Inbox, StreamMsg, given, PcOK, UpInv, DownInv
  <2>3. DownInv'
    BY <1>6, Shrink DEF ReadAnswer, Read, Inbox, StreamMsg, given, PcOK, UpInv, DownInv,
         Answers, HeaderFirst
  <2>4. VerdictInv'
    BY <1>6 DEF ReadAnswer, given, PcOK, VerdictInv
  <2>5. AnswerInv'
    <3>1. /\ down \in Answers \cup HeaderFirst /\ down # <<>> /\ down' = Tail(down)
          /\ UNCHANGED <<verdict, done>>
      BY <1>6 DEF ReadAnswer, Read, Inbox, DownInv
    <3>2. /\ down' \in CarriesData => Answered'
          /\ down' \in CarriesError => verdict' = "error"
      BY <3>1, Carried DEF AnswerInv, Answered
    <3>3. /\ outcome' = "data" => Answered'
          /\ outcome' = "error" => verdict' = "error"
          /\ opener' # "ended" => outcome' = "none"
      BY <1>6, <3>1, Carried DEF ReadAnswer, AnswerInv, Answered, PcOK
    <3> QED
      BY <3>2, <3>3 DEF AnswerInv
  <2>6. QuietInv'
    BY <1>6, Shrink DEF ReadAnswer, Read, Inbox, StreamMsg, given, PcOK, UpInv, DownInv,
         VerdictInv, AnswerInv, QuietInv, Quiet, Right, Ends, Answers, HeaderFirst
  <2> QED
    BY <2>1, <2>2, <2>3, <2>4, <2>5, <2>6
<1>7. CASE OpenerFails
  <2>1. PcOK'
    BY <1>7 DEF OpenerFails, WriteMsgFails, WriteMsg, ReadFails, Inbox, Other, given,
         PcOK, Ends
  <2>2. UpInv'
    BY <1>7, Grow DEF OpenerFails, WriteMsgFails, WriteMsg, ReadFails, Inbox, Other,
         given, PcOK, UpInv, DownInv
  <2>3. DownInv'
    BY <1>7, Grow DEF OpenerFails, WriteMsgFails, WriteMsg, ReadFails, Inbox, Other,
         given, PcOK, UpInv, DownInv, Answers, HeaderFirst
  <2>4. VerdictInv'
    BY <1>7 DEF OpenerFails, given, PcOK, VerdictInv
  <2>5. AnswerInv'
    BY <1>7, Grow DEF OpenerFails, WriteMsgFails, WriteMsg, ReadFails, Inbox, Other,
         given, PcOK, UpInv, DownInv, VerdictInv, AnswerInv, Answered, CarriesData,
         CarriesError, Ends, Answers, HeaderFirst
  <2>6. QuietInv'
    BY <1>7, Grow DEF OpenerFails, WriteMsgFails, WriteMsg, ReadFails, Inbox, Other,
         given, PcOK, UpInv, DownInv, VerdictInv, AnswerInv, QuietInv, Quiet, Right, Ends,
         Answers, HeaderFirst
  <2> QED
    BY <2>1, <2>2, <2>3, <2>4, <2>5, <2>6
<1>8. CASE GetPeer
  <2>1. PcOK'
    BY <1>8 DEF GetPeer, given, PcOK, Ends
  <2>2. UpInv'
    BY <1>8 DEF GetPeer, given, PcOK, UpInv, DownInv
  <2>3. DownInv'
    BY <1>8 DEF GetPeer, given, PcOK, UpInv, DownInv, Answers, HeaderFirst
  <2>4. VerdictInv'
    BY <1>8 DEF GetPeer, given, PcOK, VerdictInv
  <2>5. AnswerInv'
    BY <1>8 DEF GetPeer, given, PcOK, UpInv, DownInv, VerdictInv, AnswerInv, Answered,
         CarriesData, CarriesError, Ends, Answers, HeaderFirst
  <2>6. QuietInv'
    BY <1>8 DEF GetPeer, given, PcOK, UpInv, DownInv, VerdictInv, AnswerInv, QuietInv,
         Quiet, Right, Ends, Answers, HeaderFirst
  <2> QED
    BY <2>1, <2>2, <2>3, <2>4, <2>5, <2>6
<1>9. CASE HandleHeader
  <2>1. PcOK'
    BY <1>9, Shrink DEF HandleHeader, Read, WriteMsg, Inbox, given, PcOK, UpInv, DownInv,
         Ends, Answers, HeaderFirst
  <2>2. UpInv'
    BY <1>9, Grow, Shrink DEF HandleHeader, Read, WriteMsg, Inbox, given, PcOK, UpInv,
         DownInv
  <2>3. DownInv'
    BY <1>9, Grow, Shrink DEF HandleHeader, Read, WriteMsg, Inbox, given, PcOK, UpInv,
         DownInv, Answers, HeaderFirst
  <2>4. VerdictInv'
    BY <1>9 DEF HandleHeader, given, PcOK, VerdictInv
  <2>5. AnswerInv'
    BY <1>9, Grow, Shrink DEF HandleHeader, Read, WriteMsg, Inbox, given, PcOK, UpInv,
         DownInv, VerdictInv, AnswerInv, Answered, CarriesData, CarriesError, Ends,
         Answers, HeaderFirst
  <2>6. QuietInv'
    BY <1>9, Grow, Shrink DEF HandleHeader, Read, WriteMsg, Inbox, given, PcOK, UpInv,
         DownInv, VerdictInv, AnswerInv, QuietInv, Quiet, Right, Ends, Answers,
         HeaderFirst
  <2> QED
    BY <2>1, <2>2, <2>3, <2>4, <2>5, <2>6
<1>10. CASE HandleHeaderFails
  <2>1. PcOK'
    BY <1>10 DEF HandleHeaderFails, WriteMsgFails, WriteMsg, ReadFails, Inbox, Other,
         given, PcOK, Ends
  <2>2. UpInv'
    BY <1>10, Grow DEF HandleHeaderFails, WriteMsgFails, WriteMsg, ReadFails, Inbox,
         Other, given, PcOK, UpInv, DownInv
  <2>3. DownInv'
    BY <1>10, Grow DEF HandleHeaderFails, WriteMsgFails, WriteMsg, ReadFails, Inbox,
         Other, given, PcOK, UpInv, DownInv, Answers, HeaderFirst
  <2>4. VerdictInv'
    BY <1>10 DEF HandleHeaderFails, given, PcOK, VerdictInv
  <2>5. AnswerInv'
    BY <1>10, Grow DEF HandleHeaderFails, WriteMsgFails, WriteMsg, ReadFails, Inbox,
         Other, given, PcOK, UpInv, DownInv, VerdictInv, AnswerInv, Answered, CarriesData,
         CarriesError, Ends, Answers, HeaderFirst
  <2>6. QuietInv'
    BY <1>10, Grow DEF HandleHeaderFails, WriteMsgFails, WriteMsg, ReadFails, Inbox,
         Other, given, PcOK, UpInv, DownInv, VerdictInv, AnswerInv, QuietInv, Quiet,
         Right, Ends, Answers, HeaderFirst
  <2> QED
    BY <2>1, <2>2, <2>3, <2>4, <2>5, <2>6
<1>11. CASE ReadRequest
  <2>1. PcOK'
    BY <1>11, Shrink DEF ReadRequest, Read, ReadFails, Inbox, Other, HandlerReturns,
         StreamMsg, given, PcOK, UpInv, DownInv, Ends, Answers, HeaderFirst
  <2>2. UpInv'
    BY <1>11, Shrink DEF ReadRequest, Read, ReadFails, Inbox, Other, HandlerReturns,
         StreamMsg, given, PcOK, UpInv, DownInv
  <2>3. DownInv'
    BY <1>11, Shrink DEF ReadRequest, Read, ReadFails, Inbox, Other, HandlerReturns,
         StreamMsg, given, PcOK, UpInv, DownInv, Answers, HeaderFirst
  <2>4. VerdictInv'
    BY <1>11 DEF ReadRequest, HandlerReturns, given, PcOK, VerdictInv
  <2>5. AnswerInv'
    BY <1>11, Shrink DEF ReadRequest, Read, ReadFails, Inbox, Other, HandlerReturns,
         StreamMsg, given, PcOK, UpInv, DownInv, VerdictInv, AnswerInv, Answered,
         CarriesData, CarriesError, Ends, Answers, HeaderFirst
  <2>6. QuietInv'
    BY <1>11, Shrink DEF ReadRequest, Read, ReadFails, Inbox, Other, HandlerReturns,
         StreamMsg, given, PcOK, UpInv, DownInv, VerdictInv, AnswerInv, QuietInv, Quiet,
         Right, Ends, Answers, HeaderFirst
  <2> QED
    BY <2>1, <2>2, <2>3, <2>4, <2>5, <2>6
<1>12. CASE Work
  <2>1. PcOK'
    BY <1>12 DEF Work, WriteMsg, WriteMsgFails, Other, HandlerReturns, given, PcOK, Ends
  <2>2. UpInv'
    BY <1>12, Grow DEF Work, WriteMsg, WriteMsgFails, Other, HandlerReturns, given, PcOK,
         UpInv, DownInv
  <2>3. DownInv'
    BY <1>12, Grow DEF Work, WriteMsg, WriteMsgFails, Other, HandlerReturns, given, PcOK,
         UpInv, DownInv, Answers, HeaderFirst
  <2>4. VerdictInv'
    BY <1>12 DEF Work, HandlerReturns, given, PcOK, VerdictInv
  <2>5. AnswerInv'
    BY <1>12, Grow DEF Work, WriteMsg, WriteMsgFails, Other, HandlerReturns, given, PcOK,
         UpInv, DownInv, VerdictInv, AnswerInv, Answered, CarriesData, CarriesError, Ends,
         Answers, HeaderFirst
  <2>6. QuietInv'
    BY <1>12, Grow DEF Work, WriteMsg, WriteMsgFails, Other, HandlerReturns, given, PcOK,
         UpInv, DownInv, VerdictInv, AnswerInv, QuietInv, Quiet, Right, Ends, Answers,
         HeaderFirst
  <2> QED
    BY <2>1, <2>2, <2>3, <2>4, <2>5, <2>6
<1>13. CASE WriteError
  <2>1. PcOK'
    BY <1>13 DEF WriteError, WriteMsg, given, PcOK, Ends
  <2>2. UpInv'
    BY <1>13, Grow DEF WriteError, WriteMsg, given, PcOK, UpInv, DownInv
  <2>3. DownInv'
    BY <1>13, Grow DEF WriteError, WriteMsg, given, PcOK, UpInv, DownInv, Answers,
         HeaderFirst
  <2>4. VerdictInv'
    BY <1>13 DEF WriteError, given, PcOK, VerdictInv
  <2>5. AnswerInv'
    BY <1>13, Grow DEF WriteError, WriteMsg, given, PcOK, UpInv, DownInv, VerdictInv,
         AnswerInv, Answered, CarriesData, CarriesError, Ends, Answers, HeaderFirst
  <2>6. QuietInv'
    BY <1>13, Grow DEF WriteError, WriteMsg, given, PcOK, UpInv, DownInv, VerdictInv,
         AnswerInv, QuietInv, Quiet, Right, Ends, Answers, HeaderFirst
  <2> QED
    BY <2>1, <2>2, <2>3, <2>4, <2>5, <2>6
<1>14. CASE WriteErrorFails
  <2>1. PcOK'
    BY <1>14 DEF WriteErrorFails, WriteMsgFails, WriteMsg, Other, given, PcOK, Ends
  <2>2. UpInv'
    BY <1>14, Grow DEF WriteErrorFails, WriteMsgFails, WriteMsg, Other, given, PcOK,
         UpInv, DownInv
  <2>3. DownInv'
    BY <1>14, Grow DEF WriteErrorFails, WriteMsgFails, WriteMsg, Other, given, PcOK,
         UpInv, DownInv, Answers, HeaderFirst
  <2>4. VerdictInv'
    BY <1>14 DEF WriteErrorFails, given, PcOK, VerdictInv
  <2>5. AnswerInv'
    BY <1>14, Grow DEF WriteErrorFails, WriteMsgFails, WriteMsg, Other, given, PcOK,
         UpInv, DownInv, VerdictInv, AnswerInv, Answered, CarriesData, CarriesError, Ends,
         Answers, HeaderFirst
  <2>6. QuietInv'
    BY <1>14, Grow DEF WriteErrorFails, WriteMsgFails, WriteMsg, Other, given, PcOK,
         UpInv, DownInv, VerdictInv, AnswerInv, QuietInv, Quiet, Right, Ends, Answers,
         HeaderFirst
  <2> QED
    BY <2>1, <2>2, <2>3, <2>4, <2>5, <2>6
<1>15. CASE CloseStream
  <2>1. PcOK'
    BY <1>15 DEF CloseStream, given, PcOK, Ends
  <2>2. UpInv'
    BY <1>15 DEF CloseStream, given, PcOK, UpInv, DownInv
  <2>3. DownInv'
    BY <1>15 DEF CloseStream, given, PcOK, UpInv, DownInv, Answers, HeaderFirst
  <2>4. VerdictInv'
    BY <1>15 DEF CloseStream, given, PcOK, VerdictInv
  <2>5. AnswerInv'
    BY <1>15 DEF CloseStream, given, PcOK, UpInv, DownInv, VerdictInv, AnswerInv,
         Answered, CarriesData, CarriesError, Ends, Answers, HeaderFirst
  <2>6. QuietInv'
    BY <1>15 DEF CloseStream, given, PcOK, UpInv, DownInv, VerdictInv, AnswerInv,
         QuietInv, Quiet, Right, Ends, Answers, HeaderFirst
  <2> QED
    BY <2>1, <2>2, <2>3, <2>4, <2>5, <2>6
<1>16. CASE BreakConn
  <2>1. PcOK'
    BY <1>16 DEF BreakConn, PcOK, Ends
  <2>2. UpInv'
    BY <1>16 DEF BreakConn, PcOK, UpInv, DownInv
  <2>3. DownInv'
    BY <1>16 DEF BreakConn, PcOK, UpInv, DownInv, Answers, HeaderFirst
  <2>4. VerdictInv'
    BY <1>16 DEF BreakConn, PcOK, VerdictInv
  <2>5. AnswerInv'
    BY <1>16 DEF BreakConn, PcOK, UpInv, DownInv, VerdictInv, AnswerInv, Answered,
         CarriesData, CarriesError, Ends, Answers, HeaderFirst
  <2>6. QuietInv'
    BY <1>16 DEF BreakConn, PcOK, UpInv, DownInv, VerdictInv, AnswerInv, QuietInv, Quiet,
         Right, Ends, Answers, HeaderFirst
  <2> QED
    BY <2>1, <2>2, <2>3, <2>4, <2>5, <2>6
<1>17. CASE \E e \in Ends : Cancel(e)
  <2>1. PcOK'
    BY <1>17 DEF Cancel, given, PcOK, Ends
  <2>2. UpInv'
    BY <1>17 DEF Cancel, given, PcOK, UpInv, DownInv
  <2>3. DownInv'
    BY <1>17 DEF Cancel, given, PcOK, UpInv, DownInv, Answers, HeaderFirst
  <2>4. VerdictInv'
    BY <1>17 DEF Cancel, given, PcOK, VerdictInv
  <2>5. AnswerInv'
    BY <1>17 DEF Cancel, given, PcOK, UpInv, DownInv, VerdictInv, AnswerInv, Answered,
         CarriesData, CarriesError, Ends, Answers, HeaderFirst
  <2>6. QuietInv'
    BY <1>17 DEF Cancel, given, PcOK, UpInv, DownInv, VerdictInv, AnswerInv, QuietInv,
         Quiet, Right, Ends, Answers, HeaderFirst
  <2> QED
    BY <2>1, <2>2, <2>3, <2>4, <2>5, <2>6
<1> QED
  BY <1>1, <1>2, <1>3, <1>4, <1>5, <1>6, <1>7, <1>8, <1>9, <1>10, <1>11, <1>12, <1>13,
     <1>14, <1>15, <1>16, <1>17
  DEF Next, OpenerStep, HandlerStep

\* The sequences under way are short sequences of messages.
LEMMA InvTypes == IInv => TypeOK
<1> SUFFICES ASSUME IInv PROVE TypeOK
  OBVIOUS
<1>0. \A m, n, l \in Message :
        /\ <<>> \in Seq(Message) /\ Len(<<>>) <= 2
        /\ <<m>> \in Seq(Message) /\ Len(<<m>>) <= 2
        /\ <<m, n>> \in Seq(Message) /\ Len(<<m, n>>) <= 2
        /\ <<m, n, l>> \in Seq(Message) /\ Len(<<m, n, l>>) <= 3
  OBVIOUS
<1>m. "header" \in Message /\ "data" \in Message /\ "error" \in Message
  BY DEF Message, StreamMsg
<1>u. \A s \in {<<>>, <<"header">>, <<"data">>, <<"header", "data">>} :
        s \in Seq(Message) /\ Len(s) <= 2
  BY <1>0, <1>m
<1>1. up \in Seq(Message) /\ Len(up) <= 2
  BY <1>u DEF IInv, UpInv
<1>a. \A s \in Answers : s \in Seq(Message) /\ Len(s) <= 2
  BY <1>0, <1>m DEF Answers
<1>h. \A s \in HeaderFirst : s \in Seq(Message) /\ Len(s) <= 3
  <2>1. /\ <<"header">> \in Seq(Message) /\ Len(<<"header">>) <= 3
        /\ <<"header", "data">> \in Seq(Message) /\ Len(<<"header", "data">>) <= 3
        /\ <<"header", "error">> \in Seq(Message) /\ Len(<<"header", "error">>) <= 3
        /\ <<"header", "data", "error">> \in Seq(Message)
        /\ Len(<<"header", "data", "error">>) <= 3
    BY <1>m
  <2> QED
    BY <2>1 DEF HeaderFirst
<1>2. down \in Seq(Message) /\ Len(down) <= 3
  <2>1. CASE down \in Answers
    <3>1. down \in Seq(Message) /\ Len(down) <= 2
      BY <1>a, <2>1
    <3> QED
      BY <3>1
  <2>2. CASE down \in HeaderFirst
    BY <1>h, <2>2
  <2> QED
    BY <2>1, <2>2 DEF IInv, DownInv
<1>3. {up, down} \subseteq Seq(Message) /\ {reset, broken} \subseteq BOOLEAN
  BY <1>1, <1>2 DEF IInv, PcOK
<1> QED
  BY <1>1, <1>2, <1>3 DEF IInv, PcOK, TypeOK

\* When both ends have ended, QuietInv leaves its second alternative.
LEMMA InvVerdicts == IInv => VerdictsAgree
<1> SUFFICES ASSUME IInv PROVE VerdictsAgree
  OBVIOUS
<1>1. /\ outcome = "data" => Answered
      /\ outcome = "error" => verdict = "error"
  BY DEF IInv, AnswerInv
<1>2. ASSUME Over, done = {}, ~broken, protocol = "preconfirmation", verdict # "none"
      PROVE  outcome = Right
  BY <1>2 DEF IInv, QuietInv, Quiet, Over
<1> QED
  BY <1>1, <1>2 DEF VerdictsAgree, Answered, Right

-----------------------------------------------------------------------------
\* The inductive invariant: what may be under way in each direction for every pair of
\* positions, and where the answer of an undisturbed stream is.
THEOREM Invariance == Spec => []IInv
BY InitInv, InvStep, PTL DEF Spec

\* The types, and that no header is read as a message or a message as a header
\* (TypeOK), for all versions and all ways in which the stream may fail.
THEOREM TypeCorrect == Spec => []TypeOK
BY Invariance, InvTypes, PTL

\* Data reaches the opener only from a handler that accepted or whose context ended
\* under the write, an error only from one that returned an error, and on an
\* undisturbed stream the opener gets what the handler returned (VerdictsAgree).
THEOREM EndsAgreeOnVerdict == Spec => []VerdictsAgree
BY Invariance, InvVerdicts, PTL
=============================================================================
