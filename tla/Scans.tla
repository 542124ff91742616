------------------------------- MODULE Scans --------------------------------
(***************************************************************************)
(* What a scan at the door meets first: the rate limiter (RateLimiter,     *)
(* whose names this module has) and the verification of its token          *)
(* (QrTokens).  The two share no state, so that a behaviour of both is one *)
(* of each; here one of them, the one that `part` names, is at work, with  *)
(* the other at rest.                                                      *)
(***************************************************************************)
EXTENDS RateLimiter

CONSTANTS
    Nonces, Tables, Events, Holders, NoAttendee,         \* of QrTokens, whose
    Workers, NoWorker, Orders, Ttl, MaxFailures,         \* Attendees are Holders
    SnapshotReads

VARIABLES
    part,
    qrClock, rows, pc, job, view, qrReply, failures

tokenVars == <<qrClock, rows, pc, job, view, qrReply, failures>>
allVars   == <<part, vars, tokenVars>>

Tokens == INSTANCE QrTokens WITH
            Attendees <- Holders, TicksPerSecond <- Resolution,
            clock <- qrClock, reply <- qrReply

ASSUME TokensAssumption == Tokens!TokenAssumption

-----------------------------------------------------------------------------

AllInit ==
    /\ part \in {"limiter", "tokens"}
    /\ Init /\ Tokens!Init

AllNext ==
    /\ UNCHANGED part
    /\ \/ part = "limiter" /\ Next /\ UNCHANGED tokenVars
       \/ part = "tokens" /\ Tokens!Next /\ UNCHANGED vars

AllSpec == AllInit /\ [][AllNext]_allVars

-----------------------------------------------------------------------------
(* The properties of the parts, which their modules explain; those of the     *)
(* limiter are StalledGrantsBounded and OrderlyAnswerIsExact.                 *)

\* Every variable has its type.
AllTypeOK == TypeOK /\ Tokens!TypeOK

\* The expiry at the door is the one announced (qr_token_service.py 100-101, 123, 238).
ExpiryIsAsAnnounced == Tokens!ExpiryIsAsAnnounced

\* "ok" and "attendee_mismatch" are said of tokens that were issued for this event
\* (qr_token_service.py 216-246).
AnswersAreGenuine == Tokens!AnswersAreGenuine

\* A spent token stays spent for every request that begins later
\* (qr_token_service.py 248-253, 296-304).
SpentForGood == Tokens!SpentForGood
=============================================================================
