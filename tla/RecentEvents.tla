---------------------------- MODULE RecentEvents -----------------------------
(***************************************************************************)
(* What the dashboard's activity feed promises: the newest Size events,    *)
(* newest first, and nothing of them after a restart.                      *)
(***************************************************************************)
EXTENDS Naturals, Sequences

CONSTANTS Event, Size

VARIABLE recent

FirstOf(s, n) == SubSeq(s, 1, IF Len(s) < n THEN Len(s) ELSE n)

RecentInit == recent = <<>>

RecentNext ==
  \/ \E e \in Event : recent' = FirstOf(<<e>> \o recent, Size)
  \/ recent' = <<>>

RecentSpec == RecentInit /\ [][RecentNext]_recent
=============================================================================
