------------------------------- MODULE Backend -------------------------------
(***************************************************************************)
(* What a handler of pkg/server can see of the key/value database behind   *)
(* it (redis.go, memcached.go): how long an entry lives and how a call     *)
(* ends.  The modules that store records instantiate nothing: they EXTEND  *)
(* this one and keep the entries in variables of their own.                *)
(***************************************************************************)
EXTENDS Naturals

(***************************************************************************)
(* The expiration both backends read as "keep this entry for ever": a zero *)
(* Set TTL in Redis, a zero Expiration in memcached.                       *)
(***************************************************************************)
Never == 0

\* When an entry written at time t with the expiration ttl dies.
DiesAt(ttl, t) == IF ttl = 0 THEN Never ELSE t + ttl

\* Neither backend returns an entry once its time is up.
Expired(dies, t) == dies # Never /\ dies <= t

\* tokens.go: the seconds until e, or 0 when e has passed.
SecondsUntil(e, t) == IF e <= t THEN 0 ELSE e - t

(***************************************************************************)
(* How a call to the backend ends:                                         *)
(*   ok        applied, and the caller is told so;                         *)
(*   failed    not applied, and the caller gets an error;                  *)
(*   unknown   applied, and the caller gets an error all the same (the     *)
(*             connection broke, or timed out, before the reply);          *)
(*   repeated  the client library lost the reply and sent the command      *)
(*             again: applied, and the caller gets the second reply.  Only *)
(*             for Delete does that reply differ from the first: "no such  *)
(*             key".                                                       *)
(***************************************************************************)
WriteCalls  == {"ok", "failed", "unknown"}
DeleteCalls == WriteCalls \union {"repeated"}
ReadCalls   == {"ok", "failed"}

Applied(call) == call # "failed"
Errs(call)    == call \in {"failed", "unknown"}
Faults(call)  == IF call = "ok" THEN 0 ELSE 1
==============================================================================
