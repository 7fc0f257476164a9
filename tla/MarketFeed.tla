------------------------------ MODULE MarketFeed ------------------------------
(***************************************************************************)
(* The ingest loops with their task queue, next to the price alert         *)
(* process.  They are separate processes that share no row of these        *)
(* models; what goes from one to the other is a bar, which a pass of the   *)
(* price loop stores and the alerts see as StoreBar.  A behaviour of both  *)
(* is one of each: their steps may come in any order or be the same step,  *)
(* as the pass that stores a bar and settles its task is.                  *)
(***************************************************************************)
EXTENDS PriceAlerts, SourceTasks

FeedSpec == AlertSpec /\ TaskSpec

FeedTypeOK == AlertTypeOK /\ TaskTypeOK

\* What no order of the steps of the two may break: a receipt shows what its
\* bar did, a notice is lost by a fault only, a lost claim by an error only.
FeedIsSafe == ReceiptsAreSound /\ LostClaimsNeedErrors
=============================================================================
