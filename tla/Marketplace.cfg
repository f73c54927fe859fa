SPECIFICATION BothSpec
CONSTANTS
    h = h
    g = g
    x = x
    hn = hn
    gn = gn
    xn = xn
    f = f
    e = e
    vend = vend
    wend = wend
    Sources = {h, g, x}
    Kind <- KindDef
    Names = {hn, gn, xn}
    NameOf <- NameOfDef
    Manifest = Manifest
    Paths = {f, e, Manifest}
    Trees <- TreesDef
    Vendors = {vend, wend}
    Configs <- ConfigsDef
    MaxVersion = 2
    MaxBuilds = 3
    u1 = u1
    u2 = u2
    web = web
    ssh = ssh
    dir = dir
    slug = slug
    host = host
    org = org
    team = team
    word1 = word1
    Word1 = Word1
    sub = sub
    tag = tag
    own1 = own1
    lib = lib
    sdk = sdk
    cli = cli
    Users = {u1, u2}
    Urls = {web, ssh, dir}
    Slugs = {slug}
    Slug <- MCSlug
    NoSlug = NoSlug
    LocalUrls = {dir}
    Https <- MCHttps
    Prefix <- MCPrefix
    Labels = {org, team}
    Carries <- MCCarries
    Segments = {host, org}
    Spelled <- MCSpelled
    AnyOne = AnyOne
    AnyDepth = AnyDepth
    Words = {word1, Word1}
    Fold <- MCFold
    Folders = {Root, sub}
    Root = Root
    Refs = {tag}
    Tip = Tip
    Dirs = {lib}
    Titles = {own1}
    Backends = {sdk}
    Types = {sdk}
    Tools = {cli, sdk}
    None = None
    Absent = Absent
    Torn = Torn
    Refused = Refused
    Offline = Offline
    Written <- MCWritten
    Worlds <- MCWorlds
    Asked <- MCAsked
    MaxCalls = 3
    MaxTroubles = 1
CHECK_DEADLOCK FALSE
INVARIANTS
    
    SettingsHold
    LookupsHold
PROPERTIES
    HistoryKept
