----------------------------- MODULE MCCrawlJob -----------------------------
(* Instances of CrawlJob for TLC. *)
EXTENDS CrawlJob, TLC

\* Pages and deliveries are interchangeable; used where no liveness is checked.
JobSymmetry == Permutations(Page) \cup Permutations(Delivery)
=============================================================================
