--------------------------- MODULE MCWebPolicy ---------------------------
\* An instance of WebPolicy, one table as time passes, for MCNotices.  Null is called
\* Absent here.
CONSTANTS Day, Offsets, Percents, FixedFees, MaxStages, Starts, Amounts, WebMaxStages,
          MaxHours, FreeHours, Unknown, Absent
VARIABLES stages, starts_at, amount, at, freeAt

W == INSTANCE WebPolicy WITH Null <- Absent

ASSUME WebPolicyOK == W!WebPolicyAssumption

SameRateAsCore == W!SameRateAsCore
CanonicalForm == W!CanonicalForm
FreeWindowNeverUnderWarns == W!FreeWindowNeverUnderWarns
=============================================================================
