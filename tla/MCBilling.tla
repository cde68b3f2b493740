------------------------------- MODULE MCBilling -------------------------------
EXTENDS Billing, TLC

CONSTANTS free, pro, max,  \* plans
          o1, o2, u1, l1,  \* payments: orders, an upgrade, a link
          m1,              \* a mandate
          r1, r2           \* refund requests

Tiers == free :> 0 @@ pro :> 1 @@ max :> 2
Kinds == o1 :> "checkout" @@ o2 :> "checkout" @@ u1 :> "upgrade" @@ l1 :> "link"
Prices == o1 :> pro @@ o2 :> max @@ u1 :> max @@ l1 :> max
Renewals == m1 :> pro
Reasons == r1 :> o1 @@ r2 :> o1

AllTraffic == {
  {"order", "confirm", "captured", "trial", free, o1},
  {"order", "confirm", "captured", "failed", o1, o2},
  {"order", "captured", "link", "cancelLink", "linkPaid", "linkClosed", pro, o1, l1},
  {"order", "confirm", "captured", "subscribe", "heal", pro, o1},
  {"order", "captured", "heal", "cancel", pro, o1},
  {"subscribe", "promote", "periods", pro},
  {"subscribe", "force", pro},
  {"trial", "expire", "periods", "order", "captured", free, o1},
  {"downgrade", "cancelScheduled", "promote", "periods", pro},
  {"upgrade", "upgradeFree", "confirm", "captured", free, u1},
  {"mandate", "activated", "charged", "heal", m1},
  {"mandate", "activated", "charged", "order", "captured", o1, m1},
  {"mandate", "charged", "halted", m1},
  {"mandate", "charged", "cancelled", "paused", "resumed", "completed", m1},
  {"order", "captured", "refund", "approve", "refundCreated", "refundProcessed", o1, r1},
  {"order", "captured", "refund", "refundCreated", o1, r1, r2}
}
UpgradeTraffic == {{"upgrade", "confirm", "captured", pro, u1}}
=============================================================================
