-------------------------------- MODULE MCPage --------------------------------
(* Page with up to two targets: a good one, and a second one of every kind.*)
EXTENDS Page

First == [id |-> "a", user |-> "op", port |-> 1, sshPort |-> 1]

\* A good one; one with the port or the id of the first; one whose user is the
\* watcher; and one each without id, user, or host and port.
Second == {
  [id |-> "b", user |-> "op", port |-> 2, sshPort |-> 2],
  [id |-> "b", user |-> "op", port |-> 1, sshPort |-> 1],
  [id |-> "a", user |-> "op", port |-> 2, sshPort |-> 2],
  [id |-> "b", user |-> "w", port |-> 2, sshPort |-> 2],
  [id |-> "",  user |-> "op", port |-> 2, sshPort |-> 2],
  [id |-> "b", user |-> "", port |-> 2, sshPort |-> 2],
  [id |-> "b", user |-> "op", port |-> 0, sshPort |-> 2]}

\* With tracing, with or without a watcher; and one without tracing, where a target's
\* user may have any name.
MCConfigs ==
  [runtime : {"qemu", ""},
   targets : {<<>>, <<First>>} \union {<<First, t>> : t \in Second},
   traced : {TRUE},
   watcher : {"", "w"}]
  \union
  {[runtime |-> "qemu", traced |-> FALSE, watcher |-> "w",
    targets |-> <<First, [id |-> "b", user |-> "w", port |-> 2, sshPort |-> 2]>>]}
=============================================================================
