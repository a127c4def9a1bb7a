----------------------------- MODULE MCUpgrade -----------------------------
(***************************************************************************)
(* Small instances of Upgrade for TLC.                                     *)
(***************************************************************************)
EXTENDS Upgrade

\* Field lengths on both sides of each boundary the code tests.
EdgeLens == {0, 512, 1024, 1025}

\* Bound on exploration: stop once firmware other than the factory image runs.
\* The switch itself is still checked.  Used where the standby bank takes many
\* values, to keep the two banks from multiplying.
FactoryRuns == \A p \in Pages :
    flash[gpnvm2][p] = [data |-> Factory, half |-> p % 2, bytes |-> IFLASH0_PAGE_SIZE]

\* Bound on exploration: at most MaxDamaged pages of the standby bank are torn or
\* were decrypted under a wrong IV.
MaxDamaged == 1
FewDamaged == Cardinality({p \in Pages :
    Standby[p] = Torn \/ (Standby[p] \in PageData /\ Standby[p].data = Garbled)}) <= MaxDamaged
=============================================================================
