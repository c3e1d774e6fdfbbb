SPECIFICATION Spec
CONSTANTS
    Folder = {f1, f2, f3}
    Name = {Projects, Archive}
    Standard = {Archive}
    Root = Root
    None = None
INVARIANTS
    TypeOK
    CacheOnceRight
    NewIsFound
PROPERTIES
    ServedByName
