----------------------------- MODULE MCUvlWrite -----------------------------
(***************************************************************************)
(* A send buffer of two segments.  The second request does not fit whole   *)
(* beside the first: it is given to lwIP in two pieces, and the second of  *)
(* them is appended to a segment that may wait for the window.  The        *)
(* requests of ResendLens make segments that the window holds back, one    *)
(* that is sent again and one that is appended then.                       *)
(***************************************************************************)
EXTENDS UvlWrite

MCLens == <<3, 2>>
ResendLens == <<5, 2, 1>>
=============================================================================
