\* The URL of a feed changes while its refresh is under way.
SPECIFICATION Spec
CONSTANTS
    u1 = u1
    u2 = u2
    Feeds = {f1}
    Urls = {u1, u2}
    UrlOf <- StartUrls
    Loaders = {l1}
    None = None
    Refresher = Refresher
    MaxVersion <- Published
    MaxEvents = 1
INVARIANTS
    ETagIsOfItsSource
