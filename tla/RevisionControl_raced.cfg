SPECIFICATION Spec
CONSTANTS
    c1 = c1  c2 = c2
    main = main  dev = dev
    prompt = prompt  tools = tools  search = search  fetch = fetch
    v0 = v0  v1 = v1  v2 = v2
    msg = msg  again = again
    Controllers = {c1, c2}
    Branches = {main, dev}
    Messages = {msg, again}
    Fields = {prompt, tools}
    Keys = {search, fetch}
    Atoms = {v0, v1, v2}
    Asks <- Contended
INVARIANTS
    MergesAreThreeWay
CHECK_DEADLOCK FALSE
