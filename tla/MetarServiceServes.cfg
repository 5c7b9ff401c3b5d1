\* One client that may never read again, with one request fewer than workers;
\* together the two have more requests than workers.
SPECIFICATION ServerSpec
CONSTANTS
    c1 = c1
    c2 = c2
    Client = {c1, c2}
    Worker = {w1, w2}
    Staller = {c1}
    Leaver = {c1}
    QueueCap = 1
    SendChanCap = 1
    Budget <- Requests
    nil = nil
INVARIANTS TypeOK EveryRequestAnswered
PROPERTIES RequestsEnd OthersServed
