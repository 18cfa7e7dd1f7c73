\* Two values that share a key, no nested bucket, one client.
SPECIFICATION Spec
CONSTANTS
    v1 = v1
    w1 = w1
    key = key
    Nil = Nil
    ObjectId = {1, 2}
    Key = {key}
    Bucket = {}
    Value = {v1, w1}
    Client = {c1}
    IdOf <- TwoIds
    Indexes <- OneKey
    Path <- AtTop
    Rejected = {}
    ValidateValues <- NothingToDelete
PROPERTY FsckRepairs
