----------------------------- MODULE MCQueryApi -----------------------------
(***************************************************************************)
(* Small instances of QueryApi for TLC.                                    *)
(***************************************************************************)
EXTENDS QueryApi

CONSTANTS u1, u2, q1, q2

Public(route, height, range) ==
    [route |-> route, id |-> Nobody, height |-> height, range |-> range, token |-> "public"]
Private(route, height, range, token) ==
    [route |-> route, id |-> u1, height |-> height, range |-> range, token |-> token]
Named(route, name) ==
    [route |-> route, id |-> name, height |-> 0, range |-> 0, token |-> "public"]

(* What has to do with one another is asked for in one behaviour.          *)
Family(urls, jobs, wins, fails) ==
    [urls |-> urls, jobs |-> jobs, wins |-> wins, fails |-> fails]

Chain == Family({Public("mugle/block", 0, 0), Public("mugle/blocks", 2, 1),
                 Public("mugle/blocks", 2, 2)}, {"blocks"}, {}, 1)
Stats == Family({Public("mugle/stats", 2, 1), Public("pool/stats", 2, 2)},
                {"blocks", "stats"}, {}, 1)
Zero == Family({Public("mugle/block", 0, 0), Public("mugle/stats", 0, 1),
                Public("mugle/block/:height", 0, 0)}, {}, {}, 1)
Pool == Family({Public("pool/block", 0, 0), Public("pool/blocks", 2, 1),
                Public("pool/stats", 2, 0)}, {}, {1, 2}, 0)
Estimate == Family({Private("estimate/:height", 2, 0, "own")}, {"stats"}, {2}, 0)
Balances == Family({Private("estimate", 0, 0, "own")}, {"shares", "stats"}, {2}, 1)
Worker == Family({Private("worker/rigs", 2, 1, "own"), Private("worker/shares", 2, 1, "expired"),
                  Private("worker/shares", 2, 1, "own")}, {"blocks", "shares"}, {}, 1)
Money == Family({Private("worker/stat", 0, 0, "none"), Private("worker/stat", 0, 0, "own"),
                 Private("payment/http", 0, 0, "other"), Private("payment/http", 0, 0, "own")},
                {"stats"}, {}, 1)
Account == Family({Private("worker/utxo", 0, 0, "own"), Private("worker/payment", 0, 0, "own"),
                   Private("worker/payments", 0, 2, "own")}, {}, {}, 0)
History == Family({Private("worker/stats", 2, 1, "own"),
                   Public("mugle/stats/:height", 2, 0)}, {"stats"}, {}, 0)
People == Family({Named("create", u2), Named("login", u2), Named("login", u1),
                  Public("unknown", 0, 0)}, {}, {}, 1)

AllFamilies ==
    {Chain, Stats, Zero, Pool, Estimate, Balances, Worker, Money, Account, History, People}
=============================================================================
