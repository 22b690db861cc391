-------------------------------- MODULE Wire --------------------------------
(***************************************************************************)
(* pkg/brokerapi: how an error of the library crosses from openbloxd to its *)
(* client.  An error is the sentinel it wraps, or "other".  The status code *)
(* follows from the kind and is not told apart further: the client looks at *)
(* the kind of every answer that is not 2xx.                                *)
(***************************************************************************)
Sentinels ==
  {"ErrNotFound", "ErrInvalid", "ErrProfileConflict", "ErrStopped", "ErrAtCapacity",
   "ErrTimeout", "ErrRuntimeUnavailable", "ErrImageUnavailable"}

KindOf(err) ==
  CASE err = "ErrNotFound"           -> "not_found"
    [] err = "ErrInvalid"            -> "invalid"
    [] err = "ErrProfileConflict"    -> "conflict"
    [] err = "ErrStopped"            -> "stopped"
    [] err = "ErrAtCapacity"         -> "at_capacity"
    [] err = "ErrTimeout"            -> "timeout"
    [] err = "ErrRuntimeUnavailable" -> "runtime_unavailable"
    [] err = "ErrImageUnavailable"   -> "image_unavailable"
    [] OTHER                         -> "internal"

\* Mutant of ErrorFor: a stopped sandbox shares its status with a conflict.
ErrorForConflict(kind) ==
  CASE kind = "not_found" -> "ErrNotFound"
    [] kind = "invalid"   -> "ErrInvalid"
    [] kind = "timeout"   -> "ErrTimeout"
    [] kind \in {"conflict", "stopped"} -> "ErrProfileConflict"
    [] OTHER              -> "ErrInternal"

ErrorFor(kind) ==
  CASE kind = "not_found"           -> "ErrNotFound"
    [] kind = "invalid"             -> "ErrInvalid"
    [] kind = "conflict"            -> "ErrProfileConflict"
    [] kind = "stopped"             -> "ErrStopped"
    [] kind = "at_capacity"         -> "ErrAtCapacity"
    [] kind = "timeout"             -> "ErrTimeout"
    [] kind = "runtime_unavailable" -> "ErrRuntimeUnavailable"
    [] kind = "image_unavailable"   -> "ErrImageUnavailable"
    [] OTHER                        -> "ErrInternal"
=============================================================================
