CONSTANTS
    c1 = c1
    c2 = c2
    ip1 = ip1
    t1 = t1
    t2 = t2
    w1 = w1
    s1 = s1
    s2 = s2
    None = None
    Conns = {c1, c2}
    IPs = {ip1}
    IpOf <- OneAddress
    Threads = {t1}
    Workers = {w1}
    Shares = {}
    ExtraMod = 2
    MaxSubs = 2
    MaxPosts = 1
    MaxRetargets = 0
SPECIFICATION FairSpec
INVARIANTS ExtranonceUnique
PROPERTIES FreshWork
