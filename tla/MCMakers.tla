------------------------------- MODULE MCMakers -------------------------------
(* The instance for TLC of how the orders of the two makers end: those of   *)
(* the follow-maker, and the legs of the market maker.  They share no       *)
(* variable, so that one moves while the other waits at its start.  What    *)
(* the market maker does before is the subject of another run.              *)
EXTENDS FollowMaker, TLC

CONSTANTS MaxQuotes, MaxInserts, MaxEvents, Callers, Size, Cap

VARIABLES
    part,       \* the component that moves
    quotes, earning, quoted, born, rows, filled, bank, quoteTick, disc, universe,
    scanned, phase, inserts, quoteCrashes, earned, broken

quoteVars == <<quotes, earning, quoted, born, rows, filled, bank, quoteTick, disc, universe,
               scanned, phase, inserts, quoteCrashes, earned, broken>>

Quotes == INSTANCE MarketMaker WITH
    placed <- quoted, tick <- quoteTick, active <- scanned, stray <- inserts,
    crashes <- quoteCrashes, cut <- broken

MakersInit == part \in {"orders", "legs"} /\ Init /\ Quotes!Init

MakersNext ==
    /\ UNCHANGED part
    /\ \/ part = "orders" /\ Next /\ UNCHANGED quoteVars
       \/ part = "legs" /\ Quotes!Next /\ UNCHANGED vars

Follows(A) == part = "orders" /\ A
Makes(A)   == part = "legs" /\ A

\* FollowMaker's Fairness while its orders move, MarketMaker's while its legs do.
MakersSpec ==
    /\ MakersInit /\ [][MakersNext]_<<part, vars, quoteVars>>
    /\ WF_vars(Follows(TickStep)) /\ WF_vars(Follows(SweepStep))
    /\ WF_vars(Follows(\E m \in Markets : TickStart(m)))
    /\ \A i \in Ids : WF_vars(Follows(Age(i)))
    /\ WF_quoteVars(Makes(Quotes!TickStep))
    /\ WF_quoteVars(Makes(Quotes!DiscStart)) /\ WF_quoteVars(Makes(Quotes!DiscStep))
    /\ \A i \in 1..MaxQuotes : SF_quoteVars(Makes(Quotes!DiscOrphan(i)))

\* A leg whose market is resolved is closed eventually, by its order id, also
\* across a crash that forgets the market (_apply_candidates).
ResolvedLegCloses == Quotes!ResolvedLegCloses
=============================================================================
