---------------------------- MODULE UploadPromise ----------------------------
(***************************************************************************)
(* What an upload promises its owner, whichever workspace carries it: an   *)
(* open upload either becomes a file, at once and whole, or ends without a *)
(* trace; a published file keeps its bytes until it is deleted and is not  *)
(* published a second time.                                                *)
(***************************************************************************)
CONSTANTS Sessions, Bodies, None,
          Historical   \* uploads an earlier release may have left open
                       \* next to the file it published for them

VARIABLES phase,       \* of each upload
          content      \* the bytes its owner reads, None without a file

vars == <<phase, content>>

Init ==
  /\ phase \in [Sessions -> {"absent", "open", "published"}]
  /\ \A s \in Sessions : phase[s] = "absent" <=> s \notin Historical
  /\ content \in [Sessions -> Bodies \cup {None}]
  /\ \A s \in Sessions : phase[s] = "published" <=> content[s] # None

Move(s, from, to, body) ==
  /\ phase[s] = from
  /\ phase' = [phase EXCEPT ![s] = to]
  /\ content' = [content EXCEPT ![s] = body]

Open(s)          == Move(s, "absent", "open", None)
Publish(s, body) == Move(s, "open", "published", body)
Close(s)         == Move(s, "open", "over", None)
Remove(s) == \/ Move(s, "published", "over", None)
             \/ s \in Historical /\ Move(s, "published", "open", None)

Next == \E s \in Sessions : \/ Open(s) \/ Close(s) \/ Remove(s)
                            \/ \E body \in Bodies : Publish(s, body)

Spec == Init /\ [][Next]_vars
=============================================================================
