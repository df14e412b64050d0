------------------------- MODULE MCPublishScheduler -------------------------
(* Small instances of PublishScheduler. *)
EXTENDS PublishScheduler, TLC

MCBackoff == <<1, 2>>
WesternOffset == {-1, 0}
UTCOnly == {0}

\* Workers and request threads are interchangeable.
Symmetry == Permutations(Workers) \cup Permutations(Admins)

=============================================================================
