-------------------------------- MODULE Ranges --------------------------------
(***************************************************************************)
(* Which bytes of a file a Range header gets: parseDownloadRange           *)
(* (src/backend/src/files/files.controller.ts) for an owner's download,    *)
(* parseRangeHeader (src/backend/src/sharing/sharing.controller.ts) for a  *)
(* public one, and the answers made of them.                               *)
(*                                                                         *)
(* A header that matches leaves two numbers, either of which may be        *)
(* missing; a number can be one that JavaScript does not hold exactly.     *)
(***************************************************************************)
EXTENDS Integers

CONSTANTS MaxSafe,    \* Number.MAX_SAFE_INTEGER
          Sizes,      \* sizes of files
          Numbers,    \* numbers in headers
          Missing     \* no digits

NumbersFit ==
  MaxSafe \in Nat /\ Sizes \subseteq Nat /\ Numbers \subseteq Nat
    /\ Missing \notin Int

VARIABLES header, size, own, public

vars == <<header, size, own, public>>

Digits == Numbers \cup {Missing}

\* No header, or a blank one; one that does not match; a pair.
Headers ==
  [form: {"none", "other"}, first: {Missing}, last: {Missing}]
    \cup [form: {"bytes"}, first: Digits, last: Digits]

Whole == [type |-> "none", start |-> 0, end |-> 0]
Unsatisfiable == [type |-> "unsatisfiable", start |-> 0, end |-> 0]
Range(a, b) == [type |-> "range", start |-> a, end |-> b]

Safe(n) == n <= MaxSafe

\* Number(""): zero.
Value(d) == IF d = Missing THEN 0 ELSE d

\* The end is never past the file.
Clamp(b, n) == IF b >= n THEN n - 1 ELSE b

\* The last k bytes begin here.
SuffixStart(k, n) == IF k >= n THEN 0 ELSE n - k

\* What both make of the two ends.
Bounded(a, b, n) ==
  IF a < 0 \/ b < 0 \/ a > b \/ a >= n THEN Unsatisfiable
  ELSE Range(a, Clamp(b, n))

EndOf(h, n) == IF h.last = Missing THEN n - 1 ELSE h.last

\* Mutant: an empty file has a last byte.
DownloadSuffixAs(h, n) ==
  LET k == Value(h.last) IN
  IF ~Safe(k) \/ k <= 0 THEN Unsatisfiable
  ELSE Range(SuffixStart(k, n), n - 1)

\* bytes=-k, of an owner's download.
DownloadSuffix(h, n) ==
  LET k == Value(h.last) IN
  IF ~Safe(k) \/ k <= 0 \/ n = 0 THEN Unsatisfiable
  ELSE Bounded(SuffixStart(k, n), n - 1, n)

parseDownloadRange(h, n) ==
  IF ~Safe(n) THEN Unsatisfiable
  ELSE IF h.form = "none" THEN Whole
  ELSE IF h.form = "other" THEN Unsatisfiable
  ELSE IF h.first = Missing THEN DownloadSuffix(h, n)
  ELSE IF ~Safe(h.first) \/ ~Safe(EndOf(h, n)) \/ n = 0 THEN Unsatisfiable
  ELSE Bounded(h.first, EndOf(h, n), n)

\* bytes=-k, of a public download.
PublicSuffix(h, n) ==
  LET k == Value(h.last) IN
  IF ~Safe(k) \/ k <= 0 THEN Unsatisfiable
  ELSE Bounded(SuffixStart(k, n), n - 1, n)

parseRangeHeader(h, n) ==
  IF ~Safe(n) THEN Unsatisfiable
  ELSE IF h.form = "none" THEN Whole
  ELSE IF h.form = "other" THEN Unsatisfiable
  ELSE IF h.first = Missing THEN PublicSuffix(h, n)
  ELSE IF ~Safe(h.first) \/ ~Safe(EndOf(h, n)) THEN Unsatisfiable
  ELSE Bounded(h.first, EndOf(h, n), n)

\* Status, Content-Length and the bytes sent.
Reply(parsed, n) ==
  CASE parsed.type = "unsatisfiable" ->
         [status |-> 416, length |-> 0, bytes |-> {}]
    [] parsed.type = "none" ->
         [status |-> 200, length |-> n, bytes |-> 0..(n - 1)]
    [] parsed.type = "range" ->
         [status |-> 206, length |-> parsed.end - parsed.start + 1,
          bytes |-> parsed.start..parsed.end]

Init ==
  /\ header \in Headers /\ size \in Sizes
  /\ own = Unsatisfiable /\ public = Unsatisfiable

Next ==
  /\ header' \in Headers /\ size' \in Sizes
  /\ own' = parseDownloadRange(header', size')
  /\ public' = parseRangeHeader(header', size')

Spec == Init /\ [][Next]_vars

-----------------------------------------------------------------------------
(* What RFC 9110 says of one range *)

\* The bytes of a file of n bytes that a header asks for.
Asked(h, n) ==
  CASE h.form # "bytes" -> 0..(n - 1)
    [] h.form = "bytes" /\ h.first = Missing ->
         {i \in 0..(n - 1) : i >= n - Value(h.last)}
    [] h.form = "bytes" /\ h.first # Missing /\ h.last = Missing ->
         {i \in 0..(n - 1) : i >= h.first}
    [] h.form = "bytes" /\ h.first # Missing /\ h.last # Missing ->
         {i \in 0..(n - 1) : h.first <= i /\ i <= h.last}

Exact(h, n) ==
  /\ Safe(n) /\ h.form # "other"
  /\ Safe(Value(h.first)) /\ Safe(Value(h.last))

\* What is sent is what was asked for, and it is refused only when that is
\* nothing or a number is too large to be held.
Faithful(parsed, h, n) ==
  LET r == Reply(parsed, n) IN
  /\ r.status # 416 => r.bytes = Asked(h, n)
  /\ r.status = 416 => ~Exact(h, n) \/ Asked(h, n) = {}
  /\ r.status = 206 => r.length \in 1..n /\ parsed.start \in 0..(n - 1)

\* An owner's download answers a Range header with the bytes it names, and
\* announces as many as it sends; a public download of the same file answers
\* the same.
SendsAsked == [][Faithful(own', header', size') /\ own' = public']_vars
=============================================================================
