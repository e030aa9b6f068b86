---------------------------- MODULE PackageStore ----------------------------
(***************************************************************************)
(* What the extension host (crates/irori-core, host.rs) promises of one     *)
(* extension's package, through failures and stops of Irori at any moment.  *)
(*                                                                         *)
(* A package is put in place in one step, and what the extension fetched    *)
(* for itself while it ran survives every update.  What an update couldn't  *)
(* carry over keeps the version it replaced to spare; only then may a later *)
(* stop halfway bring an older version back.                                *)
(***************************************************************************)
EXTENDS Integers

CONSTANTS Version, File, NoVersion

VARIABLES
    installed,  \* the version in place, or to be put back in place
    fetched,    \* what the extension fetched that is still there
    spare,      \* versions kept aside
    leaving     \* an uninstall began to remove it, and nothing was put in place since

store == <<installed, fetched, spare, leaving>>

StoreInit == installed = NoVersion /\ fetched = {} /\ spare = {} /\ leaving = FALSE

\* An install or an update: a version that wasn't there takes the place of what is.
Place(v) ==
    /\ v \notin spare \cup {installed}
    /\ installed' = v /\ fetched \subseteq fetched'
    /\ spare' \in SUBSET (spare \cup ({installed} \ {NoVersion}))
    /\ leaving' = FALSE

\* The extension fetches something.
Fetch ==
    /\ installed # NoVersion /\ fetched \subseteq fetched' /\ fetched' \subseteq File
    /\ UNCHANGED <<installed, spare, leaving>>

\* A version kept aside is no longer needed.
Tidy == spare' \in SUBSET spare /\ UNCHANGED <<installed, fetched, leaving>>

\* A stop halfway, and a version kept aside takes the place of the one that was there.
Revert ==
    /\ ~leaving /\ installed' \in spare
    /\ spare' = (spare \ {installed'}) \cup ({installed} \ {NoVersion})
    /\ fetched \subseteq fetched' /\ UNCHANGED leaving

\* An uninstall removes the package and the versions kept aside, and once done has left
\* nothing. Failed or cut short, it has removed some of it, and starts make of the rest
\* what they can.
Leave ==
    /\ leaving' = TRUE
    /\ installed' \in spare \cup {NoVersion, installed}
    /\ spare' \in SUBSET (spare \cup ({installed} \ {NoVersion})) /\ fetched' \in SUBSET File

Left ==
    /\ leaving /\ leaving' = FALSE
    /\ installed' = NoVersion /\ spare' = {} /\ fetched' = {}

StoreNext == Fetch \/ Tidy \/ Revert \/ Leave \/ Left \/ \E v \in Version : Place(v)

StoreSpec == StoreInit /\ [][StoreNext]_store

=============================================================================
